---- MODULE Spec2Model ----
(***************************************************************************)
(* Model of the transactional object graph of all-is-cubes: the Universe   *)
(* (tables of named members, name allocation, delete, gc, step), the       *)
(* reference handles (URef) with their dynamic borrow state, and the       *)
(* transaction protocol (SpaceTransaction, InventoryTransaction, Merge).   *)
(***************************************************************************)
EXTENDS Integers, Sequences, FiniteSets, TLC

(***************************************************************************)
(* Bounds of the model.                                                    *)
(***************************************************************************)
\* Number of member storages (Arc allocations) ever created in one run.
MaxMembers == 2
\* Largest number of caller-held reference handles to one storage.
MaxHandles == 1
\* Largest number of read guards held on one storage.
MaxReaders == 2
\* Largest value of session_step_time reached.
MaxStepTime == 1
\* Number of futures handed to set_universe_async in one run.
MaxFutures == 2

\* The text of the Specific names callers use.
SpecificStrings == {"a"}

VARIABLES
    \* ---- Universe (universe.rs:98-123) ----
    blocks,             \* tables.blocks      : Name -> root storage id
    characters,         \* tables.characters  : Name -> root storage id
    spaces,             \* tables.spaces      : Name -> root storage id
    next_anonym,        \* next number to assign to a Name::Anonym
    wants_gc,           \* whether to run gc on the next step()
    session_step_time,  \* number of unpaused step()s
    \* ---- storages and handles ----
    allocated,          \* number of storages created so far (ids 1..allocated)
    handles,            \* storage id -> number of URefs held by callers
    held,               \* storage id -> storages its value holds a URef to
    readers,            \* storage id -> number of read guards outstanding
    writers,            \* storage id -> number of write guards outstanding
    lastOp,             \* the operation that led to this state, and its result
    \* ---- transactions and their targets ----
    space,              \* Space contents: cube -> block
    inventory,          \* Inventory::slots
    sA, sB, sC,         \* SpaceTransactions
    iA, iB, iC,         \* InventoryTransactions
    out,                \* the transaction operation that led to this state
    \* ---- AllIsCubesAppState (apps.rs:37-60) ----
    game_universe,              \* the universe the app shows and steps
    game_character,             \* the character read from game_universe
    game_universe_in_progress,  \* the future set_universe_async stored, or NoFuture
    futures,                    \* what became of each future handed to the app
    appOp,                      \* the app operation that led to this state
    app_paused,                 \* the `paused` cell of the app
    input_processor,            \* InputProcessor: its mouselook mode
    control_channel,            \* the channel of ControlMessages: queue, live senders
    frame_clock,                \* FrameClock (apps/time.rs:10-18)
    call,                       \* the maybe_step_universe call in progress, and its caller
    \* ---- LumAtlasAllocator and its tiles (lum/block_texture.rs:35-85) ----
    tile_backing,               \* tile -> TileBacking (data, dirty) and its Mutex's holder
    allocator_backing,          \* AllocatorBacking (dirty) and its Mutex's holder
    texture,                    \* tile -> the data uploaded to the GPU texture
    threads                     \* the thread in write() and the thread in flush()

uvars == <<blocks, characters, spaces, next_anonym, wants_gc, session_step_time,
           allocated, handles, held, readers, writers, lastOp>>

tvars == <<space, inventory, sA, sB, sC, iA, iB, iC, out>>

cvars == <<app_paused, input_processor, control_channel, frame_clock, call>>

gvars == <<tile_backing, allocator_backing, texture, threads>>

avars == <<game_universe, game_character, game_universe_in_progress, futures, appOp,
           cvars, gvars>>

vars == <<uvars, tvars, avars>>

(***************************************************************************)
(* Name (universe.rs:52-61).                                               *)
(***************************************************************************)
Specific(s) == [kind |-> "Specific", str |-> s, num |-> 0]
Anonym(n) == [kind |-> "Anonym", str |-> "", num |-> n]
Pending == [kind |-> "Pending", str |-> "", num |-> 0]

RootIds == 1..MaxMembers
NoId == 0
TableNames == {"blocks", "characters", "spaces"}

\* The names a caller may propose to insert().
ProposedNames ==
    {Specific(s) : s \in SpecificStrings} \cup {Anonym(0), Pending}
\* The names a caller may look up or delete.
LookupNames ==
    {Specific(s) : s \in SpecificStrings} \cup {Anonym(n) : n \in 0..(MaxMembers - 1)}

EmptyTable == [n \in {} |-> NoId]

Remove(table, names) == [n \in (DOMAIN table) \ names |-> table[n]]

Put(table, name, id) == [n \in (DOMAIN table) \cup {name} |-> IF n = name THEN id ELSE table[n]]

Range(table) == {table[n] : n \in DOMAIN table}

Op(op, result, id, name) == [op |-> op, result |-> result, id |-> id, name |-> name]

(***************************************************************************)
(* Universe: lookups and name allocation.                                  *)
(***************************************************************************)
\* get_any that looks in the blocks table only.
get_any_blocks_only(b, c, s, name) ==
    IF name \in DOMAIN b THEN b[name] ELSE NoId

\* Universe::get_any: the root found under `name`, searching blocks, then
\* characters, then spaces; NoId when there is none.
get_any(b, c, s, name) ==
    IF name \in DOMAIN b THEN b[name]
    ELSE IF name \in DOMAIN c THEN c[name]
    ELSE IF name \in DOMAIN s THEN s[name]
    ELSE NoId

\* UniverseOps::get: type-directed lookup in one table.
get(table, name) == IF name \in DOMAIN table THEN table[name] ELSE NoId

\* allocate_name that accepts a Specific name without looking it up.
allocate_name_unchecked(b, c, s, next, proposed_name) ==
    IF proposed_name.kind = "Specific" THEN
        [result |-> "Ok", name |-> proposed_name, next |-> next]
    ELSE IF proposed_name.kind = "Anonym" THEN
        [result |-> "InvalidName", name |-> proposed_name, next |-> next]
    ELSE
        LET new_name == Anonym(next) IN
        IF get_any(b, c, s, new_name) # NoId
        THEN [result |-> "AssertionFailed", name |-> new_name, next |-> next + 1]
        ELSE [result |-> "Ok", name |-> new_name, next |-> next + 1]

\* allocate_name that accepts a caller's Anonym name when it is not in use.
allocate_name_accepting_anonym(b, c, s, next, proposed_name) ==
    IF proposed_name.kind \in {"Specific", "Anonym"} THEN
        IF get_any(b, c, s, proposed_name) # NoId
        THEN [result |-> IF proposed_name.kind = "Anonym" THEN "InvalidName"
                         ELSE "AlreadyExists",
              name |-> proposed_name, next |-> next]
        ELSE [result |-> "Ok", name |-> proposed_name, next |-> next]
    ELSE
        LET new_name == Anonym(next) IN
        IF get_any(b, c, s, new_name) # NoId
        THEN [result |-> "AssertionFailed", name |-> new_name, next |-> next + 1]
        ELSE [result |-> "Ok", name |-> new_name, next |-> next + 1]

\* allocate_name that does not advance next_anonym.
allocate_name_no_increment(b, c, s, next, proposed_name) ==
    IF proposed_name.kind = "Specific" THEN
        IF get_any(b, c, s, proposed_name) # NoId
        THEN [result |-> "AlreadyExists", name |-> proposed_name, next |-> next]
        ELSE [result |-> "Ok", name |-> proposed_name, next |-> next]
    ELSE IF proposed_name.kind = "Anonym" THEN
        [result |-> "InvalidName", name |-> proposed_name, next |-> next]
    ELSE
        LET new_name == Anonym(next) IN
        IF get_any(b, c, s, new_name) # NoId
        THEN [result |-> "AssertionFailed", name |-> new_name, next |-> next]
        ELSE [result |-> "Ok", name |-> new_name, next |-> next]

\* The derived Ord of Name: Specific names first, by their text, then
\* Anonym names by their number, then Pending.
SpecificOrder == <<"a">>
NameLess(m, n) ==
    LET rank(k) == IF k = "Specific" THEN 0 ELSE IF k = "Anonym" THEN 1 ELSE 2
        pos(s) == CHOOSE i \in DOMAIN SpecificOrder : SpecificOrder[i] = s
    IN \/ rank(m.kind) < rank(n.kind)
       \/ m.kind = "Specific" /\ n.kind = "Specific" /\ pos(m.str) < pos(n.str)
       \/ m.kind = "Anonym" /\ n.kind = "Anonym" /\ m.num < n.num

\* Iteration of a table in the order its roots were created.
RECURSIVE values_by_creation(_)
values_by_creation(table) ==
    IF DOMAIN table = {} THEN <<>>
    ELSE LET first == CHOOSE n \in DOMAIN table :
                          \A m \in DOMAIN table : table[n] <= table[m]
         IN <<table[first]>> \o values_by_creation(Remove(table, {first}))

\* BTreeMap::values of a table: the roots in ascending order of their names.
RECURSIVE values(_)
values(table) ==
    IF DOMAIN table = {} THEN <<>>
    ELSE LET first == CHOOSE n \in DOMAIN table :
                          \A m \in DOMAIN table : m = n \/ NameLess(n, m)
         IN <<table[first]>> \o values(Remove(table, {first}))

\* Universe::allocate_name. Returns the result, the name allocated, the new
\* value of next_anonym, and whether the assertion on a fresh Anonym held.
allocate_name(b, c, s, next, proposed_name) ==
    IF proposed_name.kind = "Specific" THEN
        IF get_any(b, c, s, proposed_name) # NoId
        THEN [result |-> "AlreadyExists", name |-> proposed_name, next |-> next]
        ELSE [result |-> "Ok", name |-> proposed_name, next |-> next]
    ELSE IF proposed_name.kind = "Anonym" THEN
        [result |-> "InvalidName", name |-> proposed_name, next |-> next]
    ELSE
        LET new_name == Anonym(next) IN
        IF get_any(b, c, s, new_name) # NoId
        THEN [result |-> "AssertionFailed", name |-> new_name, next |-> next + 1]
        ELSE [result |-> "Ok", name |-> new_name, next |-> next + 1]

\* Arc::weak_count of a root: the URefs to it held by callers and inside the
\* values of members.
weak_ref_count(h, e, id) == e[id] + Cardinality({m \in RootIds : id \in h[m]})

\* The storages a caller holds a handle to (and so can clone a handle of).
Reachable == {id \in RootIds : handles[id] > 0}

Live(id) == id \in Range(blocks) \cup Range(characters) \cup Range(spaces)

Borrowed(id) == readers[id] > 0 \/ writers[id] > 0

\* Dropping the values of removed roots drops the URefs they hold.
DropValues(h, ids) == [m \in RootIds |-> IF m \in ids THEN {} ELSE h[m]]

(***************************************************************************)
(* Universe: insert, delete, gc.                                           *)
(***************************************************************************)
\* UniverseOps::insert for the table named T; the value inserted holds
\* URefs to `refs`.
insert(T, name, refs) ==
    /\ T \in TableNames
    /\ refs \subseteq Reachable
    /\ LET a == allocate_name(blocks, characters, spaces, next_anonym, name)
           id == allocated + 1
       IN IF a.result = "Ok" THEN
              /\ allocated < MaxMembers
              /\ next_anonym' = a.next
              /\ wants_gc' = TRUE
              /\ allocated' = id
              /\ blocks' = IF T = "blocks" THEN Put(blocks, a.name, id) ELSE blocks
              /\ characters' = IF T = "characters" THEN Put(characters, a.name, id) ELSE characters
              /\ spaces' = IF T = "spaces" THEN Put(spaces, a.name, id) ELSE spaces
              /\ handles' = [handles EXCEPT ![id] = 1]
              /\ held' = [held EXCEPT ![id] = refs]
              /\ UNCHANGED <<tvars, avars>>
              /\ lastOp' = [proposed |-> name] @@ Op("insert", "Ok", id, a.name)
              /\ UNCHANGED <<session_step_time, readers, writers>>
          ELSE
              /\ next_anonym' = a.next
              /\ UNCHANGED <<tvars, avars>>
              /\ lastOp' = [proposed |-> name] @@ Op("insert", a.result, NoId, name)
              /\ UNCHANGED <<blocks, characters, spaces, wants_gc, session_step_time,
                             allocated, handles, held, readers, writers>>

\* Universe::insert with one of `names`, of a value holding one of `refsets`.
Insert(names, refsets) == \E T \in TableNames, name \in names, refs \in refsets :
    insert(T, name, refs)

\* Universe::insert_anonymous.
InsertAnonymous(refsets) == \E T \in TableNames, refs \in refsets :
    insert(T, Pending, refs)

\* delete that stops after the characters table.
delete_not_spaces(b, c, s, name) ==
    IF name \in DOMAIN b THEN
        [blocks |-> Remove(b, {name}), characters |-> c, spaces |-> s, existed |-> TRUE]
    ELSE IF name \in DOMAIN c THEN
        [blocks |-> b, characters |-> Remove(c, {name}), spaces |-> s, existed |-> TRUE]
    ELSE
        [blocks |-> b, characters |-> c, spaces |-> s, existed |-> FALSE]

\* Universe::delete: the tables after the removal, and whether the entry existed.
delete(b, c, s, name) ==
    IF name \in DOMAIN b THEN
        [blocks |-> Remove(b, {name}), characters |-> c, spaces |-> s, existed |-> TRUE]
    ELSE IF name \in DOMAIN c THEN
        [blocks |-> b, characters |-> Remove(c, {name}), spaces |-> s, existed |-> TRUE]
    ELSE IF name \in DOMAIN s THEN
        [blocks |-> b, characters |-> c, spaces |-> Remove(s, {name}), existed |-> TRUE]
    ELSE
        [blocks |-> b, characters |-> c, spaces |-> s, existed |-> FALSE]

Delete == \E name \in LookupNames :
    LET d == delete(blocks, characters, spaces, name)
        id == get_any(blocks, characters, spaces, name)
    IN /\ blocks' = d.blocks
       /\ characters' = d.characters
       /\ spaces' = d.spaces
       /\ held' = DropValues(held, {id} \ {NoId})
       /\ UNCHANGED <<tvars, avars>>
       /\ lastOp' = Op("delete", IF d.existed THEN "true" ELSE "false", id, name)
       /\ UNCHANGED <<next_anonym, wants_gc, session_step_time, allocated, handles,
                      readers, writers>>

\* gc_members that spares the members that are borrowed.
gc_members_sparing_borrowed(table, h, e) ==
    LET dead == {name \in DOMAIN table :
                    weak_ref_count(h, e, table[name]) = 0 /\ ~Borrowed(table[name])}
    IN [table |-> Remove(table, dead),
        held |-> DropValues(h, {table[name] : name \in dead})]

\* gc_members that counts only the handles callers hold.
gc_members_callers_only(table, h, e) ==
    LET dead == {name \in DOMAIN table : e[table[name]] = 0}
    IN [table |-> Remove(table, dead),
        held |-> DropValues(h, {table[name] : name \in dead})]

\* gc_members: remove from one table every root with no weak reference.
gc_members(table, h, e) ==
    LET dead == {name \in DOMAIN table : weak_ref_count(h, e, table[name]) = 0}
    IN [table |-> Remove(table, dead),
        held |-> DropValues(h, {table[name] : name \in dead})]

\* Universe::gc: sweep blocks, then characters, then spaces.
gc(b, c, s, h, e) ==
    LET g1 == gc_members(b, h, e)
        g2 == gc_members(c, g1.held, e)
        g3 == gc_members(s, g2.held, e)
    IN [blocks |-> g1.table, characters |-> g2.table, spaces |-> g3.table,
        held |-> g3.held]

Gc ==
    LET g == gc(blocks, characters, spaces, held, handles)
    IN /\ blocks' = g.blocks
       /\ characters' = g.characters
       /\ spaces' = g.spaces
       /\ held' = g.held
       /\ UNCHANGED <<tvars, avars>>
       /\ lastOp' = Op("gc", "Ok", NoId, Pending)
       /\ UNCHANGED <<next_anonym, wants_gc, session_step_time, allocated, handles,
                      readers, writers>>

(***************************************************************************)
(* Reference handles (URef) and borrow guards.                             *)
(***************************************************************************)
\* Universe::get / get_any hand out a new URef (URootRef::downgrade).
Get == \E T \in TableNames, name \in LookupNames :
    LET table == IF T = "blocks" THEN blocks
                 ELSE IF T = "characters" THEN characters ELSE spaces
        id == get(table, name)
    IN /\ id # NoId => handles[id] < MaxHandles
       /\ handles' = IF id # NoId THEN [handles EXCEPT ![id] = @ + 1] ELSE handles
       /\ UNCHANGED <<tvars, avars>>
       /\ lastOp' = Op("get", IF id # NoId THEN "Some" ELSE "None", id, name)
       /\ UNCHANGED <<blocks, characters, spaces, next_anonym, wants_gc,
                      session_step_time, allocated, held, readers, writers>>

GetAny == \E name \in LookupNames :
    LET id == get_any(blocks, characters, spaces, name)
    IN /\ id # NoId => handles[id] < MaxHandles
       /\ handles' = IF id # NoId THEN [handles EXCEPT ![id] = @ + 1] ELSE handles
       /\ UNCHANGED <<tvars, avars>>
       /\ lastOp' = Op("get_any", IF id # NoId THEN "Some" ELSE "None", id, name)
       /\ UNCHANGED <<blocks, characters, spaces, next_anonym, wants_gc,
                      session_step_time, allocated, held, readers, writers>>

\* Dropping a URef.
DropHandle == \E id \in Reachable :
    /\ handles' = [handles EXCEPT ![id] = @ - 1]
    /\ UNCHANGED <<tvars, avars>>
    /\ lastOp' = Op("drop", "Ok", id, Pending)
    /\ UNCHANGED <<blocks, characters, spaces, next_anonym, wants_gc,
                   session_step_time, allocated, held, readers, writers>>

\* URef::read that refuses a second read guard.
try_read_one_reader_only(id) ==
    IF ~Live(id) THEN "Gone"
    ELSE IF writers[id] > 0 THEN "AlreadyMutablyBorrowed"
    ELSE IF readers[id] > 0 THEN "AlreadyBorrowed"
    ELSE "Ok"

\* The result of URef::read on storage `id`.
try_read(id) ==
    IF ~Live(id) THEN "Gone"
    ELSE IF writers[id] > 0 THEN "AlreadyMutablyBorrowed"
    ELSE "Ok"

\* try_write that does not look at the write guard.
try_write_ignoring_writer(id) ==
    IF ~Live(id) THEN "Gone"
    ELSE IF readers[id] > 0 THEN "AlreadyBorrowed"
    ELSE "Ok"

\* try_write that does not look at the read guards.
try_write_ignoring_readers(id) ==
    IF ~Live(id) THEN "Gone"
    ELSE IF writers[id] > 0 THEN "AlreadyMutablyBorrowed"
    ELSE "Ok"

\* The result of URef::try_borrow_mut / try_modify on storage `id`.
try_write(id) ==
    IF ~Live(id) THEN "Gone"
    ELSE IF writers[id] > 0 THEN "AlreadyMutablyBorrowed"
    ELSE IF readers[id] > 0 THEN "AlreadyBorrowed"
    ELSE "Ok"

\* URef::read: acquire a read guard.
Read == \E id \in Reachable :
    LET r == try_read(id)
    IN /\ r = "Ok" => readers[id] < MaxReaders
       /\ readers' = IF r = "Ok" THEN [readers EXCEPT ![id] = @ + 1] ELSE readers
       /\ UNCHANGED <<tvars, avars>>
       /\ lastOp' = Op("read", r, id, Pending)
       /\ UNCHANGED <<blocks, characters, spaces, next_anonym, wants_gc,
                      session_step_time, allocated, handles, held, writers>>

\* URef::try_borrow_mut: acquire the write guard.
Write == \E id \in Reachable :
    LET r == try_write(id)
    IN /\ writers' = IF r = "Ok" THEN [writers EXCEPT ![id] = @ + 1] ELSE writers
       /\ UNCHANGED <<tvars, avars>>
       /\ lastOp' = Op("write", r, id, Pending)
       /\ UNCHANGED <<blocks, characters, spaces, next_anonym, wants_gc,
                      session_step_time, allocated, handles, held, readers>>

\* URef::try_modify: run a function on the value under a write guard that is
\* released on return; the function stores URefs to `refs` in the value.
TryModify(refsets) == \E id \in Reachable, refs \in refsets :
    LET r == try_write(id)
    IN /\ refs \subseteq Reachable
       /\ held' = IF r = "Ok" THEN [held EXCEPT ![id] = refs] ELSE held
       /\ UNCHANGED <<tvars, avars>>
       /\ lastOp' = Op("try_modify", r, id, Pending)
       /\ UNCHANGED <<blocks, characters, spaces, next_anonym, wants_gc,
                      session_step_time, allocated, handles, readers, writers>>

\* Dropping a read guard (UBorrow).
ReleaseRead == \E id \in RootIds :
    /\ readers[id] > 0
    /\ readers' = [readers EXCEPT ![id] = @ - 1]
    /\ UNCHANGED <<tvars, avars>>
    /\ lastOp' = Op("release_read", "Ok", id, Pending)
    /\ UNCHANGED <<blocks, characters, spaces, next_anonym, wants_gc,
                   session_step_time, allocated, handles, held, writers>>

\* Dropping the write guard (UBorrowMut).
ReleaseWrite == \E id \in RootIds :
    /\ writers[id] > 0
    /\ writers' = [writers EXCEPT ![id] = @ - 1]
    /\ UNCHANGED <<tvars, avars>>
    /\ lastOp' = Op("release_write", "Ok", id, Pending)
    /\ UNCHANGED <<blocks, characters, spaces, next_anonym, wants_gc,
                   session_step_time, allocated, handles, held, readers>>

(***************************************************************************)
(* Universe::step.                                                         *)
(***************************************************************************)
\* Universe::step that collects garbage on every call.
Step_always_collecting(pauses) == \E paused \in pauses :
    LET g == gc(blocks, characters, spaces, held, handles)
        stepped == Range(g.spaces) \cup Range(g.characters)
    IN /\ paused \/ session_step_time < MaxStepTime
       /\ blocks' = g.blocks
       /\ characters' = g.characters
       /\ spaces' = g.spaces
       /\ held' = g.held
       /\ wants_gc' = FALSE
       /\ session_step_time' = IF paused THEN session_step_time ELSE session_step_time + 1
       /\ UNCHANGED <<tvars, avars>>
       /\ lastOp' = Op("step", IF \E id \in stepped : Borrowed(id) THEN "Panic" ELSE "Ok",
                       NoId, Pending)
       /\ UNCHANGED <<next_anonym, allocated, handles, readers, writers>>

\* Universe::step: the garbage collection it owes, the step counter, then
\* every space and every character is stepped under try_modify(), which
\* panics ("... borrowed during universe.step()") when the member is borrowed.
step_universe(paused) ==
    LET g == IF wants_gc THEN gc(blocks, characters, spaces, held, handles)
             ELSE [blocks |-> blocks, characters |-> characters, spaces |-> spaces,
                   held |-> held]
        stepped == values(g.spaces) \o values(g.characters)
    IN /\ paused \/ session_step_time < MaxStepTime
       /\ blocks' = g.blocks
       /\ characters' = g.characters
       /\ spaces' = g.spaces
       /\ held' = g.held
       /\ wants_gc' = FALSE
       /\ session_step_time' = IF paused THEN session_step_time ELSE session_step_time + 1
       /\ lastOp' = [stepped |-> stepped] @@
                     Op("step", IF \E i \in DOMAIN stepped : Borrowed(stepped[i])
                                THEN "Panic" ELSE "Ok",
                        NoId, Pending)
       /\ UNCHANGED <<next_anonym, allocated, handles, readers, writers>>

\* Universe::step on a universe whose members return empty transactions.
Step(pauses) == \E paused \in pauses :
    step_universe(paused) /\ UNCHANGED <<tvars, avars>>

(***************************************************************************)
(* SpaceTransaction and CubeTransaction (space_txn.rs).  A Space is its    *)
(* contents, cube -> block, over the cubes of its grid; a cube is its x    *)
(* coordinate.  A SpaceTransaction is its `cubes` map; its `behaviors`     *)
(* part is the default (empty) BehaviorSetTransaction throughout.          *)
(***************************************************************************)
\* Bound on the number of entries of the transactions considered together.
MaxEntries == 3

None == "None"
Blocks == {"b1", "b2"}
OptBlocks == Blocks \cup {None}

\* The cubes inside the space's grid, and the cubes transactions may name.
GridCubes == {0, 1}
TxnCubes == {0, 1, 2}

CubeTransaction(old, new) == [old |-> old, new |-> new]
CubeTransactions == [old : OptBlocks, new : OptBlocks]

EmptyMap == [k \in {} |-> None]
MapLen(m) == Cardinality(DOMAIN m)
Min(S) == CHOOSE x \in S : \A y \in S : x <= y

\* The element of a one-element set; The({f(x) : x \in {e}}) is f(e) with e
\* evaluated once.
The(S) == CHOOSE x \in S : TRUE

\* The check and merge of the (empty) behaviors part succeed.
BehaviorsOk == TRUE

\* CubeTransaction::check_merge allowing two equal new blocks.
CubeCheckMerge_equal_new_allowed(t1, t2) ==
    /\ ~(t1.old # None /\ t2.old # None /\ t1.old # t2.old)
    /\ ~(t1.new # None /\ t2.new # None /\ t1.new # t2.new)

\* CubeTransaction::check_merge: TRUE for Ok, FALSE for a TransactionConflict.
CubeCheckMerge(t1, t2) ==
    IF t1.old # None /\ t2.old # None /\ t1.old # t2.old THEN FALSE
    ELSE IF t1.new # None /\ t2.new # None THEN FALSE
    ELSE TRUE

\* CubeTransaction::commit_merge that keeps its own precondition only.
CubeCommitMerge_keeps_own_old(t1, t2) ==
    [old |-> t1.old,
     new |-> IF t2.new # None THEN t2.new ELSE t1.new]

\* CubeTransaction::commit_merge.
CubeCommitMerge(t1, t2) ==
    [old |-> IF t2.old # None THEN t2.old ELSE t1.old,
     new |-> IF t2.new # None THEN t2.new ELSE t1.new]

\* SpaceTransaction::check_merge: iterate over the smaller map.
SpaceCheckMerge(self, other) ==
    LET swap == MapLen(self) > MapLen(other)
        cubes1 == IF swap THEN other ELSE self
        cubes2 == IF swap THEN self ELSE other
    IN /\ \A cube \in DOMAIN cubes1 :
            cube \in DOMAIN cubes2 => CubeCheckMerge(cubes1[cube], cubes2[cube])
       /\ BehaviorsOk

\* SpaceTransaction::commit_merge that merges into its own cubes only.
SpaceCommitMerge_own_cubes_only(self, other) ==
    [cube \in DOMAIN self |->
        IF cube \in DOMAIN other THEN CubeCommitMerge(self[cube], other[cube])
        ELSE self[cube]]

\* SpaceTransaction::commit_merge: fold the smaller map into the larger.
SpaceCommitMerge(self, other) ==
    LET swap == MapLen(other) > MapLen(self)
        t1 == IF swap THEN other ELSE self
        t2 == IF swap THEN self ELSE other
    IN [cube \in DOMAIN t1 \cup DOMAIN t2 |->
            IF cube \in DOMAIN t1 /\ cube \in DOMAIN t2
                THEN CubeCommitMerge(t1[cube], t2[cube])
            ELSE IF cube \in DOMAIN t2 THEN t2[cube]
            ELSE t1[cube]]

\* SpaceTransaction::set_cube: the transaction for a single cube.
set_cube(cube, old, new) == [c \in {cube} |-> CubeTransaction(old, new)]

\* SpaceTransaction::set that replaces an entry the cube already has.
set_replacing(t, cube, old, new) ==
    [ok |-> TRUE,
     value |-> [c \in DOMAIN t \cup {cube} |->
                  IF c = cube THEN CubeTransaction(old, new) ELSE t[c]]]

\* SpaceTransaction::set: whether it returned Ok, and the transaction after
\* the call.  A vacant entry takes the cube's transaction; an occupied one
\* is merged with it, or left alone when the two conflict.
set(t, cube, old, new) ==
    IF cube \notin DOMAIN t THEN
        [ok |-> TRUE,
         value |-> [c \in DOMAIN t \cup {cube} |->
                      IF c = cube THEN CubeTransaction(old, new) ELSE t[c]]]
    ELSE IF ~CubeCheckMerge(t[cube], CubeTransaction(old, new)) THEN
        [ok |-> FALSE, value |-> t]
    ELSE
        [ok |-> TRUE,
         value |-> [t EXCEPT ![cube] = CubeCommitMerge(t[cube], CubeTransaction(old, new))]]

\* Result<T, TransactionConflict>.
Ok(t) == [ok |-> TRUE, value |-> t]
Conflict == [ok |-> FALSE, value |-> "TransactionConflict"]

\* Merge::merge on SpaceTransactions: check_merge, then commit_merge; an
\* operand that is already a conflict stays one (the `?` of the caller).
SpaceMerge(r1, r2) ==
    IF ~r1.ok \/ ~r2.ok THEN Conflict
    ELSE IF SpaceCheckMerge(r1.value, r2.value)
         THEN Ok(SpaceCommitMerge(r1.value, r2.value))
    ELSE Conflict

\* SpaceTransaction::check: the result, and the space after the call.
\* SpaceTransaction::check that tests bounds only for cubes carrying an
\* expected-old block.
SpaceCheck_unconditional_writes_unbounded(t, sp) ==
    LET bad == {cube \in DOMAIN t :
                    t[cube].old # None
                    /\ (cube \notin DOMAIN sp \/ sp[cube] # t[cube].old)}
    IN IF bad = {} THEN [ok |-> BehaviorsOk, problem |-> "", space |-> sp]
       ELSE IF Min(bad) \notin DOMAIN sp
            THEN [ok |-> FALSE, problem |-> "cube out of space's bounds", space |-> sp]
       ELSE [ok |-> FALSE, problem |-> "existing block not as expected", space |-> sp]

\* The failure value built by the check functions: a location tag and a
\* fixed problem text.
PreconditionFailed(location, problem) ==
    [location |-> location, problem |-> problem]

SpaceCheck(t, sp) ==
    LET bad == {cube \in DOMAIN t :
                    \/ cube \notin DOMAIN sp
                    \/ t[cube].old # None /\ sp[cube] # t[cube].old}
    IN IF bad = {} THEN [ok |-> BehaviorsOk, problem |-> "", space |-> sp]
       ELSE IF Min(bad) \notin DOMAIN sp
            THEN [ok |-> FALSE, problem |-> "cube out of space's bounds", space |-> sp]
       ELSE [ok |-> FALSE, problem |-> "existing block not as expected", space |-> sp]

(***************************************************************************)
(* Inventory, Slot and InventoryTransaction (inventory.rs).  Slot index i  *)
(* of the code is position i + 1 of the sequence.  The `insert` field of a *)
(* transaction is read as t["insert"].                                     *)
(***************************************************************************)
EmptySlot == [count |-> 0, item |-> None]
Stack(count, item) == [count |-> count, item |-> item]

\* StackLimit::get of the item's stack limit.
stack_limit(item) == IF item = "one" THEN 1 ELSE 100

\* u16::saturating_sub.
saturating_sub(a, b) == IF a > b THEN a - b ELSE 0

\* Addition of two u16 counts, kept to 16 bits.
u16_add(a, b) == (a + b) % 65536

\* Slot::unload_to that leaves the source stack as it was when only a part of
\* it is moved.
unload_to_keeping_source(self, destination) ==
    IF self = EmptySlot THEN
        [moved |-> FALSE, self |-> self, destination |-> destination]
    ELSE IF destination = EmptySlot THEN
        [moved |-> TRUE, self |-> EmptySlot, destination |-> self]
    ELSE IF self.item = destination.item THEN
        LET max_stack == stack_limit(destination.item)
            room == saturating_sub(max_stack, destination.count)
            count_to_move == IF self.count < room THEN self.count ELSE room
        IN IF count_to_move = 0 THEN
               [moved |-> FALSE, self |-> self, destination |-> destination]
           ELSE
               [moved |-> TRUE,
                self |-> IF count_to_move < self.count THEN self ELSE EmptySlot,
                destination |-> Stack(u16_add(destination.count, count_to_move),
                                      destination.item)]
    ELSE
        [moved |-> FALSE, self |-> self, destination |-> destination]

\* Slot::unload_to that moves the whole stack onto a stack of the same item,
\* whatever the stack limit.
unload_to_unlimited(self, destination) ==
    IF self = EmptySlot THEN
        [moved |-> FALSE, self |-> self, destination |-> destination]
    ELSE IF destination = EmptySlot THEN
        [moved |-> TRUE, self |-> EmptySlot, destination |-> self]
    ELSE IF self.item = destination.item THEN
        [moved |-> TRUE, self |-> EmptySlot,
         destination |-> Stack(destination.count + self.count, destination.item)]
    ELSE
        [moved |-> FALSE, self |-> self, destination |-> destination]

\* Slot::unload_to: whether anything moved, and the two slots afterwards.
unload_to(self, destination) ==
    IF self = EmptySlot THEN
        [moved |-> FALSE, self |-> self, destination |-> destination]
    ELSE IF destination = EmptySlot THEN
        [moved |-> TRUE, self |-> EmptySlot, destination |-> self]
    ELSE IF self.item = destination.item THEN
        LET max_stack == stack_limit(destination.item)
            room == saturating_sub(max_stack, destination.count)
            count_to_move == IF self.count < room THEN self.count ELSE room
        IN IF count_to_move = 0 THEN
               [moved |-> FALSE, self |-> self, destination |-> destination]
           ELSE IF count_to_move < self.count THEN
               [moved |-> TRUE,
                self |-> Stack(self.count - count_to_move, self.item),
                destination |-> Stack(u16_add(destination.count, count_to_move),
                                      destination.item)]
           ELSE
               [moved |-> TRUE,
                self |-> EmptySlot,
                destination |-> Stack(u16_add(destination.count, count_to_move),
                                      destination.item)]
    ELSE
        [moved |-> FALSE, self |-> self, destination |-> destination]

InventoryTransaction(replace, stacks) == [replace |-> replace, insert |-> stacks]

\* InventoryTransaction::default.
NoInventoryTransaction == InventoryTransaction(EmptyMap, <<>>)

\* A pass of a stack over the slots that starts at the last slot.
RECURSIVE PlaceStack_from_last(_, _, _, _)
PlaceStack_from_last(slots, new_stack, pos, changed) ==
    IF pos > Len(slots) \/ new_stack = EmptySlot
    THEN [slots |-> slots, new_stack |-> new_stack, changed |-> changed]
    ELSE The({PlaceStack_from_last(
                  [slots EXCEPT ![Len(slots) + 1 - pos] = u.destination], u.self, pos + 1,
                  IF u.moved THEN Append(changed, Len(slots) - pos) ELSE changed) :
              u \in {unload_to(new_stack, slots[Len(slots) + 1 - pos])}})

\* One pass of a stack over the slots from position `pos` (check, lines 391-398).
RECURSIVE PlaceStack(_, _, _, _)
PlaceStack(slots, new_stack, pos, changed) ==
    IF pos > Len(slots) \/ new_stack = EmptySlot
    THEN [slots |-> slots, new_stack |-> new_stack, changed |-> changed]
    ELSE The({PlaceStack([slots EXCEPT ![pos] = u.destination], u.self, pos + 1,
                         IF u.moved THEN Append(changed, pos - 1) ELSE changed) :
              u \in {unload_to(new_stack, slots[pos])}})

\* The loop over the insert list (check, lines 389-405).
RECURSIVE PlaceAll(_, _, _)
PlaceAll(slots, stacks, changed) ==
    IF stacks = <<>> THEN [ok |-> TRUE, slots |-> slots, changed |-> changed]
    ELSE The({IF p.new_stack # EmptySlot
              THEN [ok |-> FALSE, slots |-> p.slots, changed |-> p.changed]
              ELSE PlaceAll(p.slots, Tail(stacks), p.changed) :
              p \in {PlaceStack(slots, Head(stacks), 1, changed)}})

\* The slot indices of a replace map in increasing order.
RECURSIVE SortedKeys(_)
SortedKeys(S) == IF S = {} THEN <<>> ELSE <<Min(S)>> \o SortedKeys(S \ {Min(S)})

\* The outcome of the replacements and insertions of `t` on a clone `slots`
\* of the inventory's slots (check, lines 363-412).
InventoryWork(t, slots) ==
    LET keys == DOMAIN t.replace
        bad == {index \in keys :
                    \/ index + 1 > Len(slots)
                    \/ slots[index + 1] # t.replace[index][1]}
        replaced == [pos \in DOMAIN slots |->
                        IF pos - 1 \in keys THEN t.replace[pos - 1][2] ELSE slots[pos]]
    IN IF bad # {} THEN
           [ok |-> FALSE, some |-> FALSE,
            problem |-> IF Min(bad) + 1 > Len(slots) THEN "slot out of bounds"
                        ELSE "old slot not as expected",
            new |-> slots, change |-> <<>>]
       ELSE The({IF p.ok
                 THEN [ok |-> TRUE, some |-> TRUE, problem |-> "",
                       new |-> p.slots, change |-> p.changed]
                 ELSE [ok |-> FALSE, some |-> FALSE,
                       problem |-> "insufficient empty slots",
                       new |-> slots, change |-> <<>>] :
                 p \in {PlaceAll(replaced, t["insert"], SortedKeys(keys))}})

\* InventoryTransaction::check that installs the slots it computed.
InventoryCheck_installing(t, slots) ==
    IF t.replace = EmptyMap /\ t["insert"] = <<>>
    THEN [ok |-> TRUE, some |-> FALSE, problem |-> "", new |-> slots, change |-> <<>>,
          inventory |-> slots]
    ELSE The({[inventory |-> w.new] @@ w : w \in {InventoryWork(t, slots)}})

\* InventoryTransaction::check: the result (Ok(None), Ok(Some(InventoryCheck))
\* or the PreconditionFailed) and the inventory after the call; the work is
\* done on a clone of the slots.
InventoryCheck(t, slots) ==
    IF t.replace = EmptyMap /\ t["insert"] = <<>>
    THEN [ok |-> TRUE, some |-> FALSE, problem |-> "", new |-> slots, change |-> <<>>,
          inventory |-> slots]
    ELSE [inventory |-> slots] @@ InventoryWork(t, slots)

\* InventoryTransaction::check_merge.
InventoryCheckMerge(self, other) ==
    ~(\E slot \in DOMAIN self.replace : slot \in DOMAIN other.replace)

\* InventoryTransaction::commit_merge that puts the other transaction's
\* insertions first.
InventoryCommitMerge_other_inserts_first(self, other) ==
    [replace |-> [slot \in DOMAIN self.replace \cup DOMAIN other.replace |->
                    IF slot \in DOMAIN other.replace THEN other.replace[slot]
                    ELSE self.replace[slot]],
     insert |-> other["insert"] \o self["insert"]]

\* InventoryTransaction::commit_merge: BTreeMap::extend and Vec::extend.
InventoryCommitMerge(self, other) ==
    [replace |-> [slot \in DOMAIN self.replace \cup DOMAIN other.replace |->
                    IF slot \in DOMAIN other.replace THEN other.replace[slot]
                    ELSE self.replace[slot]],
     insert |-> self["insert"] \o other["insert"]]

\* Merge::merge on InventoryTransactions.
InventoryMerge(r1, r2) ==
    IF ~r1.ok \/ ~r2.ok THEN Conflict
    ELSE IF InventoryCheckMerge(r1.value, r2.value)
         THEN Ok(InventoryCommitMerge(r1.value, r2.value))
    ELSE Conflict

\* SpaceTransaction::commit: Space::set for every cube with a new block, in
\* key order, stopping at the first set that fails (a cube outside the grid).
SpaceCommit(t, sp) ==
    LET bad == {cube \in DOMAIN t : t[cube].new # None /\ cube \notin DOMAIN sp}
        done(cube) == cube \in DOMAIN t /\ t[cube].new # None
                        /\ (bad = {} \/ cube < Min(bad))
    IN [ok |-> bad = {},
        space |-> [c \in DOMAIN sp |-> IF done(c) THEN t[c].new ELSE sp[c]]]

\* InventoryTransaction::commit that emits a change also when the check
\* found nothing to do.
InventoryCommit_always_notifying(check, slots) ==
    IF check.some
    THEN [ok |-> TRUE, inventory |-> check.new, outputs |-> <<check.change>>]
    ELSE [ok |-> TRUE, inventory |-> slots, outputs |-> <<<<>>>>]

\* InventoryTransaction::commit that emits one change for each changed slot.
InventoryCommit_change_per_slot(check, slots) ==
    IF check.some
    THEN [ok |-> TRUE, inventory |-> check.new,
          outputs |-> [i \in 1..Len(check.change) |-> <<check.change[i]>>]]
    ELSE [ok |-> TRUE, inventory |-> slots, outputs |-> <<>>]

\* InventoryTransaction::commit: install the checked slots, emit one change.
InventoryCommit(check, slots) ==
    IF check.some
    THEN [ok |-> TRUE, inventory |-> check.new, outputs |-> <<check.change>>]
    ELSE [ok |-> TRUE, inventory |-> slots, outputs |-> <<>>]

\* SpaceTransaction::commit on a space whose set() returns an error for the
\* cubes in `rejected` (and for cubes out of bounds): the loop stops at the
\* first error, after the cubes before it have been set.
SpaceCommitRejecting(t, sp, rejected) ==
    LET bad == {cube \in DOMAIN t :
                    t[cube].new # None /\ (cube \notin DOMAIN sp \/ cube \in rejected)}
        done(cube) == cube \in DOMAIN t /\ t[cube].new # None
                        /\ (bad = {} \/ cube < Min(bad))
    IN [ok |-> bad = {},
        space |-> [c \in DOMAIN sp |-> IF done(c) THEN t[c].new ELSE sp[c]]]

\* Transaction::execute on a Space: check, then commit if the check passed.
space_execute(t, sp) ==
    The({IF ~c.ok THEN [ok |-> FALSE, space |-> c.space]
         ELSE SpaceCommit(t, c.space) :
         c \in {SpaceCheck(t, sp)}})

\* Transaction::execute on an Inventory.
inventory_execute(t, slots) ==
    The({IF ~c.ok THEN [ok |-> FALSE, inventory |-> c.inventory, outputs |-> <<>>]
         ELSE InventoryCommit(c, c.inventory) :
         c \in {InventoryCheck(t, slots)}})

\* The members an aggregate transaction may hold a transaction for: a Space,
\* and a Character (whose transaction is the one for its inventory).
AggMembers == {"space", "character"}

\* An aggregate execute that checks and commits one member after the other.
universe_execute_member_by_member(members, st, it, sp, slots) ==
    The({[ok |-> se.ok /\ ie.ok,
          checks |-> [space |-> se.ok, character |-> ie.ok],
          space |-> se.space, inventory |-> ie.inventory] :
         se \in {IF "space" \in members THEN space_execute(st, sp)
                 ELSE [ok |-> TRUE, space |-> sp]},
         ie \in {IF "character" \in members THEN inventory_execute(it, slots)
                 ELSE [ok |-> TRUE, inventory |-> slots, outputs |-> <<>>]}})

\* The checks of an aggregate's member transactions.
universe_check(members, st, it, sp, slots) ==
    [space |-> IF "space" \in members THEN SpaceCheck(st, sp)
               ELSE [ok |-> TRUE, problem |-> "", space |-> sp],
     character |-> IF "character" \in members THEN InventoryCheck(it, slots)
                   ELSE [ok |-> TRUE, some |-> FALSE, problem |-> "", new |-> slots,
                         change |-> <<>>, inventory |-> slots]]

\* The commits of an aggregate's member transactions, given their checks:
\* nothing is committed unless every check passed.
universe_commit(members, st, it, c) ==
    LET ok == c.space.ok /\ c.character.ok
    IN [ok |-> ok,
        checks |-> [space |-> c.space.ok, character |-> c.character.ok],
        space |-> IF ok /\ "space" \in members
                  THEN SpaceCommit(st, c.space.space).space ELSE c.space.space,
        inventory |-> IF ok /\ "character" \in members
                      THEN InventoryCommit(c.character, c.character.inventory).inventory
                      ELSE c.character.inventory]

\* UniverseTransaction execute: check every member transaction, and commit
\* them only if every check passed.
universe_execute(members, st, it, sp, slots) ==
    The({universe_commit(members, st, it, c) :
         c \in {universe_check(members, st, it, sp, slots)}})

\* The loop of Universe::step over the transactions its members returned
\* that gives up at the first failure.
step_execute_stopping_at_failure(st, it, rejected, sp, slots) ==
    The({The({IF c.ok /\ e1.ok
              THEN [space |-> e1.space, inventory |-> e2.inventory,
                    checked |-> c.ok, results |-> <<e1.ok, e2.ok>>,
                    logged |-> IF e2.ok THEN 0 ELSE 1]
              ELSE [space |-> e1.space, inventory |-> slots,
                    checked |-> c.ok, results |-> <<FALSE>>, logged |-> 1] :
              e1 \in {IF c.ok THEN SpaceCommitRejecting(st, c.space, rejected)
                      ELSE [ok |-> FALSE, space |-> c.space]},
              e2 \in {inventory_execute(it, slots)}}) :
         c \in {SpaceCheck(st, sp)}})

\* The loop of Universe::step over the transactions its members returned:
\* the space's, then the character's.  Each is executed (check, then
\* commit); a failure is logged and the loop goes on.
step_execute(st, it, rejected, sp, slots) ==
    The({The({[space |-> e1.space, inventory |-> e2.inventory,
               checked |-> c.ok, results |-> <<c.ok /\ e1.ok, e2.ok>>,
               logged |-> Cardinality({i \in 1..2 : ~<<c.ok /\ e1.ok, e2.ok>>[i]})] :
              e1 \in {IF c.ok THEN SpaceCommitRejecting(st, c.space, rejected)
                      ELSE [ok |-> FALSE, space |-> c.space]},
              e2 \in {inventory_execute(it, slots)}}) :
         c \in {SpaceCheck(st, sp)}})

(***************************************************************************)
(* Transactions and targets to draw from.                                  *)
(***************************************************************************)
\* SpaceTransactions on the cubes K with at most n entries.
SpaceTransactions(K, n) ==
    UNION {[D -> CubeTransactions] : D \in {D \in SUBSET K : Cardinality(D) <= n}}

Spaces == [GridCubes -> Blocks]

\* Sequences over S of length at most n.
SeqsUpTo(S, n) == UNION {[1..k -> S] : k \in 0..n}

SlotValues == {EmptySlot, Stack(1, "one"), Stack(75, "std")}
InsertStacks == {Stack(1, "one"), Stack(50, "std")}
SlotIndices == {0, 1}
Inventories == [1..1 -> SlotValues] \cup [1..2 -> SlotValues]

\* InventoryTransactions with at most n entries (replacements plus
\* insertions), replacing (old, new) pairs drawn from P.
InventoryTransactions(P, n) ==
    UNION {{InventoryTransaction(r, i) :
                r \in [D -> P], i \in SeqsUpTo(InsertStacks, n - Cardinality(D))} :
           D \in {D \in SUBSET SlotIndices : Cardinality(D) <= n}}

ReplacePairs == SlotValues \X SlotValues
SomeReplacePairs ==
    {<<EmptySlot, Stack(1, "one")>>, <<Stack(1, "one"), EmptySlot>>,
     <<Stack(1, "one"), Stack(75, "std")>>}

\* No transaction operation has happened.
OutNone == [op |-> "none"]

\* A space of "b1" and an inventory of two empty slots, no transactions.
IdleSpace == [c \in GridCubes |-> "b1"]
IdleInventory == <<EmptySlot, EmptySlot>>
NoSpaceTransactions == sA = EmptyMap /\ sB = EmptyMap /\ sC = EmptyMap
NoInventoryTransactions ==
    /\ iA = NoInventoryTransaction
    /\ iB = NoInventoryTransaction
    /\ iC = NoInventoryTransaction
TIdle ==
    /\ space = IdleSpace
    /\ inventory = IdleInventory
    /\ NoSpaceTransactions
    /\ NoInventoryTransactions
    /\ out = OutNone

(***************************************************************************)
(* The universe and its callers.                                           *)
(***************************************************************************)
\* Universe::new, with no handle and no guard in existence.
(***************************************************************************)
(* UniverseTransaction: member insertions.  An aggregate built by          *)
(* UniverseTransaction::insert holds the proposed name of its member, and  *)
(* a merge of aggregates holds the insertions of all of them.              *)
(***************************************************************************)
\* One insertion of an aggregate: the table of the member and its proposed name.
MemberInserts == [table : TableNames, name : {Pending} \cup {Specific(s) : s \in SpecificStrings}]

\* The state an aggregate's commit works on; built_next is next_anonym as it
\* was when the aggregates were built.
UniverseState ==
    [blocks |-> blocks, characters |-> characters, spaces |-> spaces,
     next_anonym |-> next_anonym, built_next |-> next_anonym,
     allocated |-> allocated, ok |-> TRUE, names |-> <<>>]

\* A commit that gives a Pending member the name chosen when its aggregate
\* was built.
insert_commit_named_at_build(u, member) ==
    The({IF a.result # "Ok" THEN [u EXCEPT !.ok = FALSE]
         ELSE [u EXCEPT
                 !.blocks = IF member.table = "blocks"
                            THEN Put(u.blocks, a.name, u.allocated + 1) ELSE u.blocks,
                 !.characters = IF member.table = "characters"
                                THEN Put(u.characters, a.name, u.allocated + 1)
                                ELSE u.characters,
                 !.spaces = IF member.table = "spaces"
                            THEN Put(u.spaces, a.name, u.allocated + 1) ELSE u.spaces,
                 !.allocated = u.allocated + 1,
                 !.names = Append(u.names, a.name)] :
         a \in {allocate_name(u.blocks, u.characters, u.spaces, u.built_next,
                              member.name)}})

\* The commit of one insertion: the name is allocated now, from the
\* universe as it is at this point of the commit.
insert_commit(u, member) ==
    The({IF a.result # "Ok" THEN [u EXCEPT !.ok = FALSE]
         ELSE [u EXCEPT
                 !.blocks = IF member.table = "blocks"
                            THEN Put(u.blocks, a.name, u.allocated + 1) ELSE u.blocks,
                 !.characters = IF member.table = "characters"
                                THEN Put(u.characters, a.name, u.allocated + 1)
                                ELSE u.characters,
                 !.spaces = IF member.table = "spaces"
                            THEN Put(u.spaces, a.name, u.allocated + 1) ELSE u.spaces,
                 !.next_anonym = a.next,
                 !.allocated = u.allocated + 1,
                 !.names = Append(u.names, a.name)] :
         a \in {allocate_name(u.blocks, u.characters, u.spaces, u.next_anonym,
                              member.name)}})

\* The commits of the insertions of a merged aggregate, in order.
RECURSIVE insert_commits(_, _)
insert_commits(u, members) ==
    IF members = <<>> \/ ~u.ok THEN u
    ELSE The({insert_commits(v, Tail(members)) : v \in {insert_commit(u, Head(members))}})

\* The entries (table, name) of one table's members in iteration order, as
\* PartialUniverse::serialize lists them; a name is written as it is.
RECURSIVE entries(_, _)
entries(T, table) ==
    IF DOMAIN table = {} THEN <<>>
    ELSE LET first == CHOOSE n \in DOMAIN table :
                          \A m \in DOMAIN table : m = n \/ NameLess(n, m)
         IN <<[table |-> T, name |-> first]>> \o entries(T, Remove(table, {first}))

\* Serialize for Universe: the blocks, then the characters, then the spaces.
serialize(b, c, s) ==
    entries("blocks", b) \o entries("characters", c) \o entries("spaces", s)

\* Deserialize for Universe: a new universe into which every entry is
\* inserted under its name; an insert that fails panics (ok is FALSE).
deserialize(members) ==
    insert_commits([blocks |-> EmptyTable, characters |-> EmptyTable,
                    spaces |-> EmptyTable, next_anonym |-> 0, built_next |-> 0,
                    allocated |-> 0, ok |-> TRUE, names |-> <<>>],
                   members)

\* The universe is serialized and a universe is deserialized from the result.
SaveAndLoad ==
    \E d \in {deserialize(serialize(blocks, characters, spaces))} :
        /\ lastOp' = [loaded |-> [blocks |-> DOMAIN d.blocks,
                                  characters |-> DOMAIN d.characters,
                                  spaces |-> DOMAIN d.spaces]]
                     @@ Op("deserialize", IF d.ok THEN "Ok" ELSE "Panic", NoId, Pending)
        /\ UNCHANGED <<blocks, characters, spaces, next_anonym, wants_gc,
                       session_step_time, allocated, handles, held, readers, writers>>
        /\ UNCHANGED <<tvars, avars>>

\* Aggregates that insert one member each are built independently, merged
\* and executed.  The check refuses a Specific name that is in use or that
\* two of the aggregates propose; then nothing is changed.
ExecuteInserts ==
    \E members \in SeqsUpTo(MemberInserts, MaxMembers) \ {<<>>} :
    \E u \in {insert_commits(UniverseState, members)} :
        /\ allocated + Len(members) <= MaxMembers
        /\ IF u.ok
           THEN /\ blocks' = u.blocks
                /\ characters' = u.characters
                /\ spaces' = u.spaces
                /\ next_anonym' = u.next_anonym
                /\ allocated' = u.allocated
                /\ wants_gc' = TRUE
                /\ handles' = [id \in RootIds |->
                                  IF allocated < id /\ id <= u.allocated THEN 1
                                  ELSE handles[id]]
           ELSE UNCHANGED <<blocks, characters, spaces, next_anonym, allocated,
                            wants_gc, handles>>
        /\ lastOp' = [proposed |-> [i \in DOMAIN members |-> members[i].name],
                      names |-> u.names, before |-> LookupNames \cap
                          (DOMAIN blocks \cup DOMAIN characters \cup DOMAIN spaces)]
                     @@ Op("execute_inserts", IF u.ok THEN "Ok" ELSE "Err", NoId, Pending)
        /\ UNCHANGED <<session_step_time, held, readers, writers>>
        /\ UNCHANGED <<tvars, avars>>

(***************************************************************************)
(* AllIsCubesAppState: replacing the game universe, at once or when a      *)
(* future completes.  A universe is known by where it came from; stepping  *)
(* it is modelled by Step above and leaves its identity alone.             *)
(***************************************************************************)
NoFuture == 0
Futures == 1..MaxFutures

NewUniverse == [source |-> "new", n |-> 0]
GivenUniverse == [source |-> "set_universe", n |-> 0]
\* The universe the future f resolves to when it resolves to Ok.
UniverseOf(f) == [source |-> "future", n |-> f]

\* Universe::get_default_character of the universe u.
get_default_character(u) == [character_of |-> u]

\* AllIsCubesAppState::set_universe that leaves a stored future in place.
set_universe_keeping_future(app, u) ==
    [app EXCEPT !.game_universe = u,
                !.game_character = get_default_character(u)]

\* AllIsCubesAppState::set_universe.
set_universe(app, u) ==
    [app EXCEPT !.game_universe_in_progress = NoFuture,
                !.game_universe = u,
                !.game_character = get_default_character(u)]

\* AllIsCubesAppState::set_universe_async.
set_universe_async(app, f) ==
    [app EXCEPT !.game_universe_in_progress = f]

\* The poll in maybe_step_universe that keeps the future when it resolved
\* to Err.
maybe_step_universe_keeping_failed(app, polled) ==
    IF app.game_universe_in_progress = NoFuture \/ polled \in {"Pending", "Err"} THEN app
    ELSE set_universe([app EXCEPT !.game_universe_in_progress = NoFuture],
                      UniverseOf(app.game_universe_in_progress))

\* AllIsCubesAppState::maybe_step_universe, the part that polls the stored
\* future; `polled` is what the poll returns.
maybe_step_universe(app, polled) ==
    IF app.game_universe_in_progress = NoFuture \/ polled = "Pending" THEN app
    ELSE IF polled = "Ok"
         THEN set_universe([app EXCEPT !.game_universe_in_progress = NoFuture],
                           UniverseOf(app.game_universe_in_progress))
    ELSE [app EXCEPT !.game_universe_in_progress = NoFuture]

AppState ==
    [game_universe |-> game_universe, game_character |-> game_character,
     game_universe_in_progress |-> game_universe_in_progress]

\* The app takes the fields of `app`.
AppBecomes(app) ==
    /\ game_universe' = app.game_universe
    /\ game_character' = app.game_character
    /\ game_universe_in_progress' = app.game_universe_in_progress

\* A future stored in the app is dropped when another value is stored over
\* it before a poll found it ready.
Superseding(fs) ==
    [f \in Futures |->
        IF f = game_universe_in_progress /\ ~fs[f].completed
        THEN [fs[f] EXCEPT !.superseded = TRUE] ELSE fs[f]]

\* FrameClock::new.  Durations are counted in half step lengths; the
\* Option<Instant> is <<>> or <<instant>>.
FrameClockNew == [last_absolute_time |-> <<>>, accumulated_step_time |-> 0]

\* No maybe_step_universe call is in progress, and the caller is not in a
\* loop of calls.
CallIdle ==
    [pc |-> "idle", i |-> 0, result |-> "None", steps |-> 0, toggles |-> 0,
     paused_at_start |-> FALSE, loop |-> "done", calls |-> 0, turns |-> 0]

\* Bounds on the tiles allocated and on the write() calls made.
MaxTiles == 2
MaxWrites == 2
Tiles == 1..MaxTiles

\* LumAtlasAllocator::new followed by allocate() of every tile: nothing is
\* dirty, no tile has data (0 stands for None; data written are 1, 2, ...).
AtlasNew ==
    /\ tile_backing = [t \in Tiles |-> [data |-> 0, dirty |-> FALSE, lock |-> "none"]]
    /\ allocator_backing = [dirty |-> FALSE, lock |-> "none"]
    /\ texture = [t \in Tiles |-> 0]
    /\ threads = [writer |-> [pc |-> "idle", tile |-> 1, data |-> 0, writes |-> 0,
                              returned |-> [t \in Tiles |-> 0]],
                  flusher |-> [pc |-> "idle", index |-> 1, error |-> FALSE,
                               result |-> "None", flushed |-> 0,
                               returned_before |-> [t \in Tiles |-> 0]]]

\* AllIsCubesAppState::new, and the renderer's texture atlas.
AppNew ==
    /\ AtlasNew
    /\ app_paused = FALSE
    /\ input_processor = [mouselook_mode |-> FALSE]
    /\ control_channel = [queue |-> <<>>, senders |-> TRUE]
    /\ frame_clock = FrameClockNew
    /\ call = CallIdle
    /\ game_universe = NewUniverse
    /\ game_character = None
    /\ game_universe_in_progress = NoFuture
    /\ futures = [f \in Futures |->
                     [ready |-> "Unused", completed |-> FALSE, superseded |-> FALSE,
                      late_polls |-> 0]]
    /\ appOp = [op |-> "new"]

SetUniverse ==
    /\ AppBecomes(set_universe(AppState, GivenUniverse))
    /\ futures' = Superseding(futures)
    /\ appOp' = [op |-> "set_universe"]
    /\ UNCHANGED <<uvars, tvars, gvars, cvars>>

SetUniverseAsync ==
    \E f \in Futures :
        /\ futures[f].ready = "Unused"
        /\ \A g \in Futures : g < f => futures[g].ready # "Unused"
        /\ AppBecomes(set_universe_async(AppState, f))
        /\ futures' = [Superseding(futures) EXCEPT ![f].ready = "Pending"]
        /\ appOp' = [op |-> "set_universe_async"]
        /\ UNCHANGED <<uvars, tvars, gvars, cvars>>

\* The source of a future delivers its result: from now on a poll of the
\* future is ready.
Deliver ==
    \E f \in Futures, result \in {"Ok", "Err"} :
        /\ futures[f].ready = "Pending"
        /\ futures' = [futures EXCEPT ![f].ready = result]
        /\ appOp' = [op |-> "deliver"]
        /\ UNCHANGED <<uvars, tvars, gvars, cvars, game_universe, game_character,
                       game_universe_in_progress>>

MaybeStepUniverse ==
    \E polled \in {IF game_universe_in_progress = NoFuture THEN "None"
                    ELSE futures[game_universe_in_progress].ready} :
        /\ AppBecomes(maybe_step_universe(AppState, polled))
        /\ futures' = [f \in Futures |->
                          IF f # game_universe_in_progress THEN futures[f]
                          ELSE IF futures[f].completed
                               THEN [futures[f] EXCEPT !.late_polls = 1]
                          ELSE [futures[f] EXCEPT !.completed = polled # "Pending"]]
        /\ appOp' = [op |-> "maybe_step_universe", polled |-> polled]
        /\ UNCHANGED <<uvars, tvars, gvars, cvars>>

AppNext ==
    \/ SetUniverse
    \/ SetUniverseAsync
    \/ Deliver
    \/ MaybeStepUniverse

UInit ==
    /\ blocks = EmptyTable
    /\ characters = EmptyTable
    /\ spaces = EmptyTable
    /\ next_anonym = 0
    /\ wants_gc = FALSE
    /\ session_step_time = 0
    /\ allocated = 0
    /\ handles = [id \in RootIds |-> 0]
    /\ held = [id \in RootIds |-> {}]
    /\ readers = [id \in RootIds |-> 0]
    /\ writers = [id \in RootIds |-> 0]
    /\ lastOp = Op("new", "Ok", NoId, Pending)

\* Values that hold no URef, and values that hold any set of URefs.
NoRefs == {{}}
AnyRefs == {{}} \cup {{id} : id \in RootIds}
FirstRefs == {{}, {1}}

\* Callers that insert, look up, delete, collect and step, and drop handles.
Next ==
    \/ Insert(ProposedNames \ {Pending}, NoRefs)
    \/ InsertAnonymous(NoRefs)
    \/ Delete
    \/ Gc
    \/ Step(BOOLEAN)
    \/ DropHandle

Init == UInit /\ TIdle /\ AppNew

SpecApp == Init /\ [][AppNext]_vars

(***************************************************************************)
(* FrameClock (apps/time.rs) and AllIsCubesAppState::maybe_step_universe   *)
(* step by step (apps.rs:185-259): the loop over the control channel, the  *)
(* poll of the stored future, the catch-up loop.  The caller advances the  *)
(* clock and then repeats maybe_step_universe until it returns None.       *)
(* Durations and instants are counted in half step lengths.                *)
(***************************************************************************)
STEP_LENGTH == 2
CATCH_UP_STEPS == 2
ACCUMULATOR_CAP == STEP_LENGTH * CATCH_UP_STEPS

\* Bounds on the duration of one advance, on the instants given to
\* advance_to, and on the messages waiting in the channel.
MaxAdvance == 5
MaxInstant == 6
MaxQueue == 2

ControlMessages == {"TogglePause", "ToggleMouselook"}

\* FrameClock::cap_step_time that leaves the accumulator as it is.
cap_step_time_unlimited(fc) == fc

\* FrameClock::cap_step_time.
cap_step_time(fc) ==
    IF fc.accumulated_step_time > ACCUMULATOR_CAP
    THEN [fc EXCEPT !.accumulated_step_time = ACCUMULATOR_CAP]
    ELSE fc

\* FrameClock::advance_by.
advance_by(fc, duration) ==
    cap_step_time([fc EXCEPT !.accumulated_step_time = @ + duration])

\* FrameClock::advance_to.
advance_to(fc, instant) ==
    [last_absolute_time |-> <<instant>>,
     accumulated_step_time |->
        IF fc.last_absolute_time = <<>> THEN fc.accumulated_step_time
        ELSE cap_step_time([fc EXCEPT !.accumulated_step_time =
                                         @ + (instant - fc.last_absolute_time[1])]
                          ).accumulated_step_time]

\* FrameClock::should_step and did_step.
should_step(fc) == fc.accumulated_step_time >= STEP_LENGTH
did_step(fc) == [fc EXCEPT !.accumulated_step_time = @ - STEP_LENGTH]

\* The caller gives the clock a duration, between its loops of calls.
AdvanceBy ==
    /\ call.pc = "idle" /\ call.loop = "done"
    /\ \E duration \in 1..MaxAdvance : frame_clock' = advance_by(frame_clock, duration)
    /\ appOp' = [op |-> "advance_by"]
    /\ UNCHANGED <<uvars, tvars, gvars, game_universe, game_character, game_universe_in_progress,
                   futures, app_paused, input_processor, control_channel, call>>

\* The caller gives the clock an instant of a clock that does not go back.
AdvanceTo ==
    /\ call.pc = "idle" /\ call.loop = "done"
    /\ \E instant \in 0..MaxInstant :
        /\ frame_clock.last_absolute_time # <<>> =>
              instant >= frame_clock.last_absolute_time[1]
        /\ frame_clock' = advance_to(frame_clock, instant)
    /\ appOp' = [op |-> "advance_to"]
    /\ UNCHANGED <<uvars, tvars, gvars, game_universe, game_character, game_universe_in_progress,
                   futures, app_paused, input_processor, control_channel, call>>

\* A holder of the channel's sender (the user interface, when the app is
\* idle or steps it) sends a message.
Send ==
    /\ call.pc \in {"idle", "catch_up"}
    /\ control_channel.senders
    /\ Len(control_channel.queue) < MaxQueue
    /\ \E msg \in ControlMessages :
        control_channel' = [control_channel EXCEPT !.queue = Append(@, msg)]
    /\ appOp' = [op |-> "send"]
    /\ UNCHANGED <<uvars, tvars, gvars, game_universe, game_character, game_universe_in_progress,
                   futures, app_paused, input_processor, frame_clock, call>>

\* The last sender of the channel is dropped.
DropSenders ==
    /\ call.pc \in {"idle", "catch_up"}
    /\ control_channel.senders
    /\ control_channel' = [control_channel EXCEPT !.senders = FALSE]
    /\ appOp' = [op |-> "drop_senders"]
    /\ UNCHANGED <<uvars, tvars, gvars, game_universe, game_character, game_universe_in_progress,
                   futures, app_paused, input_processor, frame_clock, call>>

\* maybe_step_universe is called: by a caller starting a loop of calls, or
\* again by one whose last call returned Some.
CallBegin ==
    /\ call.pc = "idle"
    /\ call' = [call EXCEPT !.pc = "control", !.i = 0, !.result = "None", !.steps = 0,
                            !.toggles = 0, !.paused_at_start = app_paused,
                            !.loop = "running",
                            !.calls = IF call.loop = "done" THEN 0 ELSE @]
    /\ appOp' = [op |-> "call"]
    /\ UNCHANGED <<uvars, tvars, gvars, game_universe, game_character, game_universe_in_progress,
                   futures, app_paused, input_processor, control_channel, frame_clock>>

\* mpsc::Receiver::try_recv.
try_recv(channel) ==
    IF channel.queue # <<>> THEN Head(channel.queue)
    ELSE IF channel.senders THEN "Empty"
    ELSE "Disconnected"

\* One turn of the `loop` over control_channel.try_recv(): a message is
\* applied, Empty breaks out of the loop, Disconnected does nothing and the
\* loop goes round again (`turns` is the parity of those turns).
ControlRecv ==
    /\ call.pc = "control"
    /\ \E r \in {try_recv(control_channel)} :
        /\ control_channel' = IF r \in ControlMessages
                              THEN [control_channel EXCEPT !.queue = Tail(@)]
                              ELSE control_channel
        /\ app_paused' = IF r = "TogglePause" THEN ~app_paused ELSE app_paused
        /\ input_processor' = IF r = "ToggleMouselook"
                              THEN [mouselook_mode |-> ~input_processor.mouselook_mode]
                              ELSE input_processor
        /\ call' = IF r = "Empty" THEN [call EXCEPT !.pc = "poll"]
                   ELSE IF r = "TogglePause" THEN [call EXCEPT !.toggles = @ + 1]
                   ELSE IF r = "Disconnected" THEN [call EXCEPT !.turns = 1 - @]
                   ELSE call
        /\ appOp' = [op |-> "try_recv", received |-> r]
    /\ UNCHANGED <<uvars, tvars, gvars, game_universe, game_character, game_universe_in_progress,
                   futures, frame_clock>>

\* The poll of game_universe_in_progress.
PollFuture ==
    /\ call.pc = "poll"
    /\ \E polled \in {IF game_universe_in_progress = NoFuture THEN "None"
                       ELSE futures[game_universe_in_progress].ready} :
        /\ AppBecomes(maybe_step_universe(AppState, polled))
        /\ futures' = [f \in Futures |->
                          IF f # game_universe_in_progress THEN futures[f]
                          ELSE IF futures[f].completed
                               THEN [futures[f] EXCEPT !.late_polls = 1]
                          ELSE [futures[f] EXCEPT !.completed = polled # "Pending"]]
        /\ appOp' = [op |-> "maybe_step_universe", polled |-> polled]
    /\ call' = [call EXCEPT !.pc = "catch_up"]
    /\ UNCHANGED <<uvars, tvars, gvars, app_paused, input_processor, control_channel, frame_clock>>

\* One turn of `for _ in 0..FrameClock::CATCH_UP_STEPS`: a universe step if
\* the clock says so.
CatchUp ==
    /\ call.pc = "catch_up" /\ call.i < CATCH_UP_STEPS
    /\ IF should_step(frame_clock)
       THEN /\ frame_clock' = did_step(frame_clock)
            /\ call' = [call EXCEPT !.i = @ + 1, !.steps = @ + 1, !.result = "Some"]
       ELSE /\ frame_clock' = frame_clock
            /\ call' = [call EXCEPT !.i = @ + 1]
    /\ appOp' = [op |-> "catch_up", stepped |-> should_step(frame_clock)]
    /\ UNCHANGED <<uvars, tvars, gvars, game_universe, game_character, game_universe_in_progress,
                   futures, app_paused, input_processor, control_channel>>

\* maybe_step_universe returns `result`; a caller that got None ends its loop.
CallReturn ==
    /\ call.pc = "catch_up" /\ call.i = CATCH_UP_STEPS
    /\ call' = [call EXCEPT !.pc = "idle", !.calls = @ + 1,
                            !.loop = IF call.result = "None" THEN "done" ELSE "running"]
    /\ appOp' = [op |-> "return", result |-> call.result]
    /\ UNCHANGED <<uvars, tvars, gvars, game_universe, game_character, game_universe_in_progress,
                   futures, app_paused, input_processor, control_channel, frame_clock>>

FrameNext ==
    \/ AdvanceBy
    \/ AdvanceTo
    \/ Send
    \/ DropSenders
    \/ CallBegin
    \/ ControlRecv
    \/ PollFuture
    \/ CatchUp
    \/ CallReturn

SpecFrame == Init /\ [][FrameNext]_vars

\* The thread inside maybe_step_universe keeps running, and a caller in its
\* loop calls again.
SpecFrameFair ==
    /\ SpecFrame
    /\ WF_vars(CallBegin) /\ WF_vars(ControlRecv) /\ WF_vars(PollFuture)
    /\ WF_vars(CatchUp) /\ WF_vars(CallReturn)

Spec == Init /\ [][Next]_vars

\* Callers that insert directly and through merged aggregates, and delete.
InsertTxnNext ==
    \/ Insert({Specific("a")}, NoRefs)
    \/ InsertAnonymous(NoRefs)
    \/ Delete
    \/ ExecuteInserts
    \/ SaveAndLoad

SpecInsertTxn == Init /\ [][InsertTxnNext]_vars

\* Callers that use handles: clone, drop, borrow for reading and writing.
RefsNext ==
    \/ Insert({Specific("a")}, NoRefs)
    \/ Delete
    \/ GetAny
    \/ DropHandle
    \/ Read
    \/ Write
    \/ TryModify(NoRefs)
    \/ ReleaseRead
    \/ ReleaseWrite

SpecRefs == Init /\ [][RefsNext]_vars

\* Callers that insert members referring to earlier members, borrow them,
\* drop their handles and collect garbage.
GcNext ==
    \/ InsertAnonymous(AnyRefs)
    \/ DropHandle
    \/ Write
    \/ ReleaseWrite
    \/ Gc
    \/ Step({TRUE})

SpecGc == Init /\ [][GcNext]_vars

\* Callers that make members refer to each other, in cycles too.
CycleNext ==
    \/ InsertAnonymous(AnyRefs)
    \/ TryModify(AnyRefs)
    \/ DropHandle
    \/ Gc
    \/ Step({TRUE})

SpecCycle == Init /\ [][CycleNext]_vars

\* Callers that borrow members for reading and writing, modify them in
\* place, release their guards, and delete members.
BorrowNext ==
    \/ Insert({Specific("a")}, NoRefs)
    \/ Delete
    \/ Read
    \/ Write
    \/ TryModify(FirstRefs)
    \/ ReleaseRead
    \/ ReleaseWrite

SpecBorrow == Init /\ [][BorrowNext]_vars

\* Callers that insert members, drop their handles and keep calling step().
LazyNext ==
    \/ InsertAnonymous(NoRefs)
    \/ DropHandle
    \/ Step(BOOLEAN)

SpecLazy == Init /\ [][LazyNext]_vars /\ WF_vars(Step(BOOLEAN))

(***************************************************************************)
(* Merging transactions: three transactions of one kind, and callers that  *)
(* ask whether they conflict and merge them in every order and grouping.   *)
(***************************************************************************)
MergeCubes == {0, 1}

MergeInit ==
    /\ UInit
    /\ AppNew
    /\ space = IdleSpace
    /\ inventory = IdleInventory
    /\ out = OutNone
    /\ \/ /\ sA \in SpaceTransactions(MergeCubes, MaxEntries)
          /\ sB \in SpaceTransactions(MergeCubes, MaxEntries - MapLen(sA))
          /\ sC \in SpaceTransactions(MergeCubes, MaxEntries - MapLen(sA) - MapLen(sB))
          /\ NoInventoryTransactions
       \/ /\ NoSpaceTransactions
          /\ iA \in InventoryTransactions(SomeReplacePairs, MaxEntries)
          /\ iB \in InventoryTransactions(SomeReplacePairs,
                        MaxEntries - MapLen(iA.replace) - Len(iA["insert"]))
          /\ iC \in InventoryTransactions(SomeReplacePairs,
                        MaxEntries - MapLen(iA.replace) - Len(iA["insert"])
                                   - MapLen(iB.replace) - Len(iB["insert"]))

\* Whether each way of merging x, y and z, in every order and both
\* groupings, succeeds.
MergeOutcomes(kind, x, y, z) ==
    LET M(r1, r2) == IF kind = "space" THEN SpaceMerge(r1, r2) ELSE InventoryMerge(r1, r2)
        orders == {<<x, y, z>>, <<x, z, y>>, <<y, x, z>>,
                   <<y, z, x>>, <<z, x, y>>, <<z, y, x>>}
    IN {M(M(Ok(p[1]), Ok(p[2])), Ok(p[3])).ok : p \in orders}
       \cup {M(Ok(p[1]), M(Ok(p[2]), Ok(p[3]))).ok : p \in orders}

SpaceMergeOp ==
    /\ NoInventoryTransactions
    /\ out' = [op |-> "space_merge",
               ab |-> SpaceCheckMerge(sA, sB), ba |-> SpaceCheckMerge(sB, sA),
               bc |-> SpaceCheckMerge(sB, sC), cb |-> SpaceCheckMerge(sC, sB),
               ac |-> SpaceCheckMerge(sA, sC), ca |-> SpaceCheckMerge(sC, sA),
               ab_c |-> SpaceMerge(SpaceMerge(Ok(sA), Ok(sB)), Ok(sC)).ok,
               bc_a |-> SpaceMerge(SpaceMerge(Ok(sB), Ok(sC)), Ok(sA)).ok,
               all |-> MergeOutcomes("space", sA, sB, sC)]
    /\ UNCHANGED <<uvars, avars, space, inventory, sA, sB, sC, iA, iB, iC>>

InventoryMergeOp ==
    /\ NoSpaceTransactions
    /\ out' = [op |-> "inventory_merge",
               ab |-> InventoryCheckMerge(iA, iB), ba |-> InventoryCheckMerge(iB, iA),
               bc |-> InventoryCheckMerge(iB, iC), cb |-> InventoryCheckMerge(iC, iB),
               ac |-> InventoryCheckMerge(iA, iC), ca |-> InventoryCheckMerge(iC, iA),
               ab_c |-> InventoryMerge(InventoryMerge(Ok(iA), Ok(iB)), Ok(iC)).ok,
               bc_a |-> InventoryMerge(InventoryMerge(Ok(iB), Ok(iC)), Ok(iA)).ok,
               all |-> MergeOutcomes("inventory", iA, iB, iC),
               merged |-> InventoryMerge(Ok(iA), Ok(iB))]
    /\ UNCHANGED <<uvars, avars, space, inventory, sA, sB, sC, iA, iB, iC>>

\* SpaceTransaction::set on sA, with the cube and blocks of the single-cube
\* transaction sB.
SpaceSetOp ==
    /\ NoInventoryTransactions
    /\ out.op = "none"
    /\ MapLen(sB) = 1 /\ sC = EmptyMap
    /\ \E cube \in DOMAIN sB :
       \E r \in {set(sA, cube, sB[cube].old, sB[cube].new)} :
          /\ sA' = r.value
          /\ out' = [op |-> "space_set", ok |-> r.ok, before |-> sA,
                     merged |-> SpaceMerge(Ok(sA),
                                           Ok(set_cube(cube, sB[cube].old, sB[cube].new)))]
    /\ UNCHANGED <<uvars, avars, space, inventory, sB, sC, iA, iB, iC>>

MergeNext ==
    \/ SpaceMergeOp
    \/ InventoryMergeOp
    \/ SpaceSetOp

SpecMerge == MergeInit /\ [][MergeNext]_vars

(***************************************************************************)
(* Checking a transaction against its target: a Space and a transaction    *)
(* for it, or an Inventory and a transaction for it.                       *)
(***************************************************************************)
CheckInit ==
    /\ UInit
    /\ AppNew
    /\ out = OutNone
    /\ sB = EmptyMap /\ sC = EmptyMap
    /\ iB = NoInventoryTransaction /\ iC = NoInventoryTransaction
    /\ \/ /\ space \in Spaces
          /\ sA \in SpaceTransactions(TxnCubes, MaxEntries)
          /\ inventory = IdleInventory
          /\ iA = NoInventoryTransaction
       \/ /\ space = IdleSpace
          /\ sA = EmptyMap
          /\ inventory \in Inventories
          /\ iA \in InventoryTransactions(ReplacePairs, MaxEntries)

SpaceCheckOp ==
    \E c \in {SpaceCheck(sA, space)} :
       /\ iA = NoInventoryTransaction
       /\ space' = c.space
       /\ out' = [op |-> "space_check", ok |-> c.ok, problem |-> c.problem]
       /\ UNCHANGED <<uvars, avars, inventory, sA, sB, sC, iA, iB, iC>>

InventoryCheckOp ==
    \E c \in {InventoryCheck(iA, inventory)} :
       /\ sA = EmptyMap
       /\ inventory' = c.inventory
       /\ out' = [op |-> "inventory_check", ok |-> c.ok, some |-> c.some,
                  problem |-> c.problem]
       /\ UNCHANGED <<uvars, avars, space, sA, sB, sC, iA, iB, iC>>

\* Transaction::execute of iA on the inventory: check, then commit.
InventoryExecuteOp ==
    /\ sA = EmptyMap
    /\ out.op # "inventory_execute"
    /\ \E e \in {inventory_execute(iA, inventory)} :
          /\ inventory' = e.inventory
          /\ out' = [op |-> "inventory_execute", ok |-> e.ok, some |-> e.outputs # <<>>,
                     problem |-> InventoryCheck(iA, inventory).problem]
          /\ UNCHANGED <<uvars, avars, space, sA, sB, sC, iA, iB, iC>>

CheckNext ==
    \/ SpaceCheckOp
    \/ InventoryCheckOp
    \/ InventoryExecuteOp

SpecCheck == CheckInit /\ [][CheckNext]_vars

(***************************************************************************)
(* Executing transactions: on the space, on the inventory, and as one      *)
(* aggregate over both members.                                            *)
(***************************************************************************)
\* The member transactions callers execute: at most one entry each.
ExecSpaceTransactions ==
    {EmptyMap} \cup {[c \in {cube} |-> ct] : cube \in TxnCubes, ct \in CubeTransactions}
ExecInventoryTransactions ==
    {NoInventoryTransaction}
    \cup {InventoryTransaction([i \in {index} |-> pair], <<>>) :
            index \in SlotIndices, pair \in SomeReplacePairs}
    \cup {InventoryTransaction(EmptyMap, <<stack>>) : stack \in InsertStacks}

\* Transactions of two entries, executed on the inventory alone: both slots
\* replaced, one slot replaced and a stack inserted, two stacks inserted.
PairedInventoryTransactions ==
    {InventoryTransaction(r, <<>>) : r \in [SlotIndices -> SomeReplacePairs]}
    \cup {InventoryTransaction([i \in {index} |-> pair], <<stack>>) :
            index \in SlotIndices, pair \in SomeReplacePairs, stack \in InsertStacks}
    \cup {InventoryTransaction(EmptyMap, <<s1, s2>>) : s1, s2 \in InsertStacks}

SpaceExecute ==
    \E t \in ExecSpaceTransactions :
    \E e \in {space_execute(t, space)} :
        /\ space' = e.space
        /\ out' = [op |-> "space_execute", ok |-> e.ok]
        /\ UNCHANGED <<uvars, avars, inventory, sA, sB, sC, iA, iB, iC>>

InventoryExecute ==
    \E t \in ExecInventoryTransactions \cup PairedInventoryTransactions :
    \E e \in {inventory_execute(t, inventory)} :
        /\ inventory' = e.inventory
        /\ out' = [op |-> "inventory_execute", ok |-> e.ok, outputs |-> e.outputs,
                   empty |-> t = NoInventoryTransaction,
                   replaced |-> DOMAIN t.replace]
        /\ UNCHANGED <<uvars, avars, space, sA, sB, sC, iA, iB, iC>>

\* The aggregate holds a transaction for the space, for the character, for
\* both or for neither.
UniverseExecute ==
    \E members \in SUBSET AggMembers :
    \E st \in IF "space" \in members THEN ExecSpaceTransactions ELSE {EmptyMap},
       it \in IF "character" \in members THEN ExecInventoryTransactions
               ELSE {NoInventoryTransaction} :
    \E e \in {universe_execute(members, st, it, space, inventory)},
       alone \in {[space |-> SpaceCommit(st, space).space,
                   inventory |-> inventory_execute(it, inventory).inventory]} :
        /\ space' = e.space
        /\ inventory' = e.inventory
        /\ out' = [op |-> "universe_execute", ok |-> e.ok, checks |-> e.checks,
                   members |-> members,
                   would_change |->
                       [space |-> "space" \in members /\ alone.space # space,
                        character |-> "character" \in members
                                        /\ alone.inventory # inventory]]
        /\ UNCHANGED <<uvars, avars, sA, sB, sC, iA, iB, iC>>

AggNext ==
    \/ SpaceExecute
    \/ InventoryExecute
    \/ UniverseExecute

SpecAgg == Init /\ [][AggNext]_vars

\* A universe that holds one space, inserted under the name "a", and one
\* character, inserted anonymously, with the handles insert() returned.
StepInit ==
    /\ AppNew
    /\ blocks = EmptyTable
    /\ characters = Put(EmptyTable, Anonym(0), 2)
    /\ spaces = Put(EmptyTable, Specific("a"), 1)
    /\ next_anonym = 1
    /\ wants_gc = TRUE
    /\ session_step_time = 0
    /\ allocated = 2
    /\ handles = [id \in RootIds |-> IF id <= 2 THEN 1 ELSE 0]
    /\ held = [id \in RootIds |-> {}]
    /\ readers = [id \in RootIds |-> 0]
    /\ writers = [id \in RootIds |-> 0]
    /\ lastOp = Op("insert", "Ok", 2, Anonym(0))
    /\ space \in Spaces
    /\ inventory = IdleInventory
    /\ sA = EmptyMap /\ sB = EmptyMap /\ sC = EmptyMap
    /\ iA = NoInventoryTransaction /\ iB = NoInventoryTransaction
    /\ iC = NoInventoryTransaction
    /\ out = OutNone

\* Universe::step where the space's step returns the transaction st and the
\* character's step the transaction it, and the space's set() rejects the
\* cubes in `rejected`.
StepExecute ==
    /\ out.op = "none"
    /\ \E paused \in BOOLEAN :
       \E st \in SpaceTransactions(GridCubes, MaxEntries),
          it \in ExecInventoryTransactions,
          rejected \in {{}} \cup {{cube} : cube \in GridCubes} :
       \E e \in {step_execute(st, it, rejected, space, inventory)} :
        /\ step_universe(paused)
        /\ space' = e.space
        /\ inventory' = e.inventory
        /\ out' = [op |-> "step", space_txn |-> st, inventory_txn |-> it,
                   rejected |-> rejected, checked |-> e.checked,
                   results |-> e.results, logged |-> e.logged,
                   before |-> [space |-> space, inventory |-> inventory]]
        /\ UNCHANGED <<avars, sA, sB, sC, iA, iB, iC>>

SpecStep == StepInit /\ [][StepExecute]_vars

(***************************************************************************)
(* LumAtlasTile::write on one thread and LumAtlasAllocator::flush on       *)
(* another (lum/block_texture.rs).  A Mutex is its holder: "none",         *)
(* "writer" or "flusher"; a thread at a pc `lock_...` waits for the Mutex. *)
(* flush holds the allocator's guard from its first line to its return.    *)
(***************************************************************************)
\* write()'s second block that does not touch the allocator's flag.
write_allocator_unmarked(allocator) == [allocator EXCEPT !.lock = "none"]

\* write()'s first block: under the tile's lock, store the data and mark the
\* tile dirty; the guard is dropped at the end of the block.
write_tile(tile, data) == [data |-> data, dirty |-> TRUE, lock |-> "none"]

\* write()'s second block: under the allocator's lock, mark it dirty.
write_allocator(allocator) == [dirty |-> TRUE, lock |-> "none"]

\* flush()'s closure on one tile, under the tile's lock: upload the data of
\* a dirty tile unless an upload failed before; `uploaded` is whether
\* upload_part returns Ok.
flush_tile(tile, tex, error, uploaded) ==
    IF tile.dirty /\ ~error /\ tile.data # 0
    THEN IF uploaded
         THEN [tile |-> [tile EXCEPT !.dirty = FALSE, !.lock = "none"],
               texture |-> tile.data, error |-> FALSE, written |-> 1]
         ELSE [tile |-> [tile EXCEPT !.lock = "none"],
               texture |-> tex, error |-> TRUE, written |-> 1]
    ELSE [tile |-> [tile EXCEPT !.lock = "none"],
          texture |-> tex, error |-> error, written |-> 0]

\* tile.write(data) is called with data not written before.
WriteCall ==
    /\ threads.writer.pc = "idle"
    /\ threads.writer.writes < MaxWrites
    /\ \E t \in Tiles :
        threads' = [threads EXCEPT !.writer.pc = "lock_tile", !.writer.tile = t,
                                   !.writer.writes = @ + 1,
                                   !.writer.data = threads.writer.writes + 1]
    /\ UNCHANGED <<uvars, tvars, cvars, game_universe, game_character,
                   game_universe_in_progress, futures, appOp,
                   tile_backing, allocator_backing, texture>>

\* self.backing.lock() returns.
WriteLockTile ==
    /\ threads.writer.pc = "lock_tile"
    /\ tile_backing[threads.writer.tile].lock = "none"
    /\ tile_backing' = [tile_backing EXCEPT ![threads.writer.tile].lock = "writer"]
    /\ threads' = [threads EXCEPT !.writer.pc = "in_tile"]
    /\ UNCHANGED <<uvars, tvars, cvars, game_universe, game_character,
                   game_universe_in_progress, futures, appOp,
                   allocator_backing, texture>>

WriteTile ==
    /\ threads.writer.pc = "in_tile"
    /\ tile_backing' = [tile_backing EXCEPT ![threads.writer.tile] =
                            write_tile(@, threads.writer.data)]
    /\ threads' = [threads EXCEPT !.writer.pc = "lock_allocator"]
    /\ UNCHANGED <<uvars, tvars, cvars, game_universe, game_character,
                   game_universe_in_progress, futures, appOp,
                   allocator_backing, texture>>

\* allocator_backing_ref.lock() returns.
WriteLockAllocator ==
    /\ threads.writer.pc = "lock_allocator"
    /\ allocator_backing.lock = "none"
    /\ allocator_backing' = [allocator_backing EXCEPT !.lock = "writer"]
    /\ threads' = [threads EXCEPT !.writer.pc = "in_allocator"]
    /\ UNCHANGED <<uvars, tvars, cvars, game_universe, game_character,
                   game_universe_in_progress, futures, appOp,
                   tile_backing, texture>>

\* The allocator is marked, and write() returns.
WriteAllocator ==
    /\ threads.writer.pc = "in_allocator"
    /\ allocator_backing' = write_allocator(allocator_backing)
    /\ threads' = [threads EXCEPT !.writer.pc = "idle",
                                  !.writer.returned[threads.writer.tile] =
                                      threads.writer.data]
    /\ UNCHANGED <<uvars, tvars, cvars, game_universe, game_character,
                   game_universe_in_progress, futures, appOp,
                   tile_backing, texture>>

\* flush() is called.
FlushCall ==
    /\ threads.flusher.pc = "idle"
    /\ threads' = [threads EXCEPT !.flusher.pc = "lock_allocator",
                                  !.flusher.index = 1, !.flusher.error = FALSE,
                                  !.flusher.result = "None", !.flusher.flushed = 0,
                                  !.flusher.returned_before = threads.writer.returned]
    /\ UNCHANGED <<uvars, tvars, cvars, game_universe, game_character,
                   game_universe_in_progress, futures, appOp,
                   tile_backing, allocator_backing, texture>>

\* self.backing.lock() returns.
FlushLockAllocator ==
    /\ threads.flusher.pc = "lock_allocator"
    /\ allocator_backing.lock = "none"
    /\ allocator_backing' = [allocator_backing EXCEPT !.lock = "flusher"]
    /\ threads' = [threads EXCEPT !.flusher.pc = "check"]
    /\ UNCHANGED <<uvars, tvars, cvars, game_universe, game_character,
                   game_universe_in_progress, futures, appOp,
                   tile_backing, texture>>

\* `if !*dirty { return Ok(..) }`.
FlushCheck ==
    /\ threads.flusher.pc = "check"
    /\ IF allocator_backing.dirty
       THEN /\ threads' = [threads EXCEPT !.flusher.pc = "tiles"]
            /\ UNCHANGED allocator_backing
       ELSE /\ threads' = [threads EXCEPT !.flusher.pc = "idle",
                                          !.flusher.result = "Ok"]
            /\ allocator_backing' = [allocator_backing EXCEPT !.lock = "none"]
    /\ UNCHANGED <<uvars, tvars, cvars, game_universe, game_character,
                   game_universe_in_progress, futures, appOp,
                   tile_backing, texture>>

\* strong_backing.lock() of the next tile of in_use returns.
FlushLockTile ==
    /\ threads.flusher.pc = "tiles"
    /\ threads.flusher.index \in Tiles
    /\ tile_backing[threads.flusher.index].lock = "none"
    /\ tile_backing' = [tile_backing EXCEPT ![threads.flusher.index].lock = "flusher"]
    /\ threads' = [threads EXCEPT !.flusher.pc = "in_tile"]
    /\ UNCHANGED <<uvars, tvars, cvars, game_universe, game_character,
                   game_universe_in_progress, futures, appOp,
                   allocator_backing, texture>>

FlushTile ==
    /\ threads.flusher.pc = "in_tile"
    /\ \E uploaded \in BOOLEAN :
       \E f \in {flush_tile(tile_backing[threads.flusher.index],
                            texture[threads.flusher.index],
                            threads.flusher.error, uploaded)} :
        /\ tile_backing' = [tile_backing EXCEPT ![threads.flusher.index] = f.tile]
        /\ texture' = [texture EXCEPT ![threads.flusher.index] = f.texture]
        /\ threads' = [threads EXCEPT !.flusher.pc = "tiles",
                                      !.flusher.index = @ + 1,
                                      !.flusher.error = f.error,
                                      !.flusher.flushed = @ + f.written]
    /\ UNCHANGED <<uvars, tvars, cvars, game_universe, game_character,
                   game_universe_in_progress, futures, appOp,
                   allocator_backing>>

\* After the tiles: return the error, or clear the allocator's flag and
\* return Ok; the allocator's guard is dropped.
FlushReturn ==
    /\ threads.flusher.pc = "tiles"
    /\ threads.flusher.index \notin Tiles
    /\ allocator_backing' =
          IF threads.flusher.error THEN [allocator_backing EXCEPT !.lock = "none"]
          ELSE [dirty |-> FALSE, lock |-> "none"]
    /\ threads' = [threads EXCEPT !.flusher.pc = "idle",
                                  !.flusher.result =
                                      IF threads.flusher.error THEN "Err" ELSE "Ok"]
    /\ UNCHANGED <<uvars, tvars, cvars, game_universe, game_character,
                   game_universe_in_progress, futures, appOp,
                   tile_backing, texture>>

AtlasNext ==
    \/ WriteCall
    \/ WriteLockTile
    \/ WriteTile
    \/ WriteLockAllocator
    \/ WriteAllocator
    \/ FlushCall
    \/ FlushLockAllocator
    \/ FlushCheck
    \/ FlushLockTile
    \/ FlushTile
    \/ FlushReturn

SpecAtlas == Init /\ [][AtlasNext]_vars

(***************************************************************************)
(* Slot::unload_to on two slots of any 16-bit counts: `inventory` is the   *)
(* pair <<self, destination>>.                                             *)
(***************************************************************************)
\* Counts at the ends of the u16 range and around the stack limits.
U16Counts == {1, 2, 99, 100, 101, 32767, 65534, 65535}
\* An unstackable item and two stackable ones.
UnloadItems == {"one", "std", "std2"}
UnloadSlots == {EmptySlot} \cup {Stack(count, item) : count \in U16Counts, item \in UnloadItems}

UnloadInit ==
    /\ UInit
    /\ AppNew
    /\ out = OutNone
    /\ space = IdleSpace
    /\ NoSpaceTransactions
    /\ NoInventoryTransactions
    /\ inventory \in [1..2 -> UnloadSlots]

\* self.unload_to(&mut destination).
UnloadOp ==
    /\ out.op = "none"
    /\ \E u \in {unload_to(inventory[1], inventory[2])} :
        /\ inventory' = <<u.self, u.destination>>
        /\ out' = [op |-> "unload", moved |-> u.moved, before |-> inventory]
    /\ UNCHANGED <<uvars, avars, space, sA, sB, sC, iA, iB, iC>>

SpecUnload == UnloadInit /\ [][UnloadOp]_vars

(***************************************************************************)
(* Insert-only InventoryTransactions executed one after the other on an    *)
(* inventory of three slots that starts with every slot within its item's  *)
(* stack limit.  The stacks inserted are any Slot::stack(count, tool).     *)
(***************************************************************************)
InsertSlotValues == {EmptySlot, Stack(1, "one"), Stack(99, "std"), Stack(100, "std")}
InsertedStacks == {Stack(1, "one"), Stack(1, "std"), Stack(2, "std"), Stack(150, "std")}
InsertLists == SeqsUpTo(InsertedStacks, 2) \ {<<>>}
\* Bound on the number of transactions executed one after the other.
MaxInserts == 2

InsertInit ==
    /\ UInit
    /\ AppNew
    /\ out = OutNone
    /\ space = IdleSpace
    /\ NoSpaceTransactions
    /\ NoInventoryTransactions
    /\ inventory \in [1..3 -> InsertSlotValues]

\* InventoryTransaction::insert(stacks).execute(&mut inventory).
InsertExecute ==
    /\ IF out.op = "none" THEN TRUE ELSE out.n < MaxInserts
    /\ \E stacks \in InsertLists :
       \E e \in {inventory_execute(InventoryTransaction(EmptyMap, stacks), inventory)} :
       /\ inventory' = e.inventory
       /\ out' = [op |-> "insert", ok |-> e.ok, stacks |-> stacks, before |-> inventory,
                  n |-> IF out.op = "none" THEN 1 ELSE out.n + 1]
       /\ UNCHANGED <<uvars, avars, space, sA, sB, sC, iA, iB, iC>>

SpecInsert == InsertInit /\ [][InsertExecute]_vars

(***************************************************************************)
(* Block::evaluate (block.rs) over the block definitions of a universe.    *)
(* A Block is an Atom or an Indirect(def), inside `rotated` Block::Rotated *)
(* wrappers: [rotated |-> n, target |-> 0 for an Atom, or the definition]. *)
(* `out` is the evaluation in progress: the block and depth of the         *)
(* innermost evaluate_impl call.                                           *)
(***************************************************************************)
Atom == [rotated |-> 0, target |-> 0]
Indirect(def) == [rotated |-> 0, target |-> def]
Rotated(block) == [block EXCEPT !.rotated = @ + 1]

\* The definitions 1..n, each an Indirect to the next; the last is an Atom
\* (back = 0) or an Indirect to the definition `back`; the block of the
\* definition `rot` is wrapped in a Rotated.
BlockDefs(n, back, rot) ==
    [def \in 1..n |->
        IF def = rot THEN Rotated(Indirect(IF def < n THEN def + 1 ELSE back))
        ELSE Indirect(IF def < n THEN def + 1 ELSE back)]

\* Chains shorter than, at and beyond the recursion limit.
DefCounts == {1, 2, 3, 33, 34, 35}
BlockDefTables ==
    {BlockDefs(n, back, rot) : n \in DefCounts, back \in {0, 1}, rot \in {0, 1}}

\* Bound on the count kept of nested evaluate_impl calls.
MaxFrames == 40

\* next_depth: the depth of the next evaluate_impl, or the error.
next_depth(depth) ==
    IF depth > 32 THEN [ok |-> FALSE, depth |-> depth]
    ELSE [ok |-> TRUE, depth |-> depth + 1]

\* One evaluate_impl call on `block` at `depth`: the result it returns, or
\* the evaluate_impl call it makes.
evaluate_impl(defs, block, depth) ==
    IF block.rotated > 0 THEN
        \* Block::Rotated: block.evaluate(), which is evaluate_impl(0).
        [status |-> "running", block |-> [block EXCEPT !.rotated = @ - 1], depth |-> 0]
    ELSE IF block.target = 0 THEN
        [status |-> "Ok", block |-> block, depth |-> depth]
    ELSE IF ~next_depth(depth).ok THEN
        [status |-> "StackOverflow", block |-> block, depth |-> depth]
    ELSE
        [status |-> "running", block |-> defs[block.target],
         depth |-> next_depth(depth).depth]

\* Block::Indirect(definition 1).evaluate() is called.
EvalInit ==
    /\ UInit
    /\ AppNew
    /\ space = IdleSpace
    /\ inventory = IdleInventory
    /\ NoSpaceTransactions
    /\ NoInventoryTransactions
    /\ \E defs \in BlockDefTables :
        out = [op |-> "evaluate", defs |-> defs, status |-> "running",
               block |-> Indirect(1), depth |-> 0, calls |-> 1]

\* The innermost evaluate_impl call runs.
EvalStep ==
    /\ out.op = "evaluate" /\ out.status = "running"
    /\ \E e \in {evaluate_impl(out.defs, out.block, out.depth)} :
        out' = [out EXCEPT !.status = e.status, !.block = e.block, !.depth = e.depth,
                           !.calls = IF e.status = "running" /\ @ < MaxFrames THEN @ + 1 ELSE @]
    /\ UNCHANGED <<uvars, avars, space, inventory, sA, sB, sC, iA, iB, iC>>

SpecEval == EvalInit /\ [][EvalStep]_vars
SpecEvalFair == SpecEval /\ WF_vars(EvalStep)

(***************************************************************************)
(* Universe::step, one member and one transaction at a time.  `out` holds  *)
(* the call's position: the members still to step, the transactions        *)
(* collected and those still to execute, and the results of the executed   *)
(* ones.  What a member's step returns is an input; here every member      *)
(* returns a transaction on the one space.                                 *)
(***************************************************************************)
\* The transaction the loop over `transactions` executes next, taken from the
\* back of the vector.
take_last_transaction(pending) ==
    [t |-> pending[Len(pending)], rest |-> SubSeq(pending, 1, Len(pending) - 1)]

\* `for t in transactions`: the next transaction and the ones after it.
take_transaction(pending) == [t |-> Head(pending), rest |-> Tail(pending)]

\* The start of Universe::step, up to `let mut transactions = Vec::new()`.
StepBegin ==
    /\ out.op = "none"
    /\ \E paused \in BOOLEAN : step_universe(paused)
    /\ out' = [op |-> "stepping", pc |-> "members", members |-> lastOp'.stepped,
               todo |-> lastOp'.stepped,
               collected |-> <<>>, pending |-> <<>>, results |-> <<>>,
               before |-> space]
    /\ UNCHANGED <<avars, space, inventory, sA, sB, sC, iA, iB, iC>>

\* try_modify() on the next member takes its write guard.
StepBorrowMember ==
    /\ out.op = "stepping" /\ out.pc = "members" /\ out.todo # <<>>
    /\ try_write(Head(out.todo)) = "Ok"
    /\ writers' = [writers EXCEPT ![Head(out.todo)] = @ + 1]
    /\ out' = [out EXCEPT !.pc = "in_member"]
    /\ lastOp' = Op("write", "Ok", Head(out.todo), Pending)
    /\ UNCHANGED <<blocks, characters, spaces, next_anonym, wants_gc,
                   session_step_time, allocated, handles, held, readers>>
    /\ UNCHANGED <<avars, space, inventory, sA, sB, sC, iA, iB, iC>>

\* The member's step returns its transaction, try_modify() drops the guard,
\* and the transaction is pushed.
StepMemberReturns ==
    /\ out.op = "stepping" /\ out.pc = "in_member"
    /\ \E t \in SpaceTransactions(GridCubes, 1) :
        out' = [out EXCEPT !.pc = "members", !.todo = Tail(@),
                           !.collected = Append(@, t), !.pending = Append(@, t)]
    /\ writers' = [writers EXCEPT ![Head(out.todo)] = @ - 1]
    /\ lastOp' = Op("release_write", "Ok", Head(out.todo), Pending)
    /\ UNCHANGED <<blocks, characters, spaces, next_anonym, wants_gc,
                   session_step_time, allocated, handles, held, readers>>
    /\ UNCHANGED <<avars, space, inventory, sA, sB, sC, iA, iB, iC>>

\* One turn of `for t in transactions`: execute t on the universe as it
\* now is; a failure is logged and the loop goes on.
StepExecuteNext ==
    /\ out.op = "stepping" /\ out.pc = "members" /\ out.todo = <<>>
    /\ out.pending # <<>>
    /\ \E n \in {take_transaction(out.pending)} :
       \E e \in {space_execute(n.t, space)} :
          /\ space' = e.space
          /\ out' = [out EXCEPT !.pending = n.rest, !.results = Append(@, e.ok)]
    /\ UNCHANGED <<uvars, avars, inventory, sA, sB, sC, iA, iB, iC>>

\* Universe::step returns.
StepReturn ==
    /\ out.op = "stepping" /\ out.pc = "members" /\ out.todo = <<>>
    /\ out.pending = <<>>
    /\ out' = [out EXCEPT !.op = "stepped"]
    /\ UNCHANGED <<uvars, avars, space, inventory, sA, sB, sC, iA, iB, iC>>

SpecStepSeq ==
    StepInit /\ [][StepBegin \/ StepBorrowMember \/ StepMemberReturns
                   \/ StepExecuteNext \/ StepReturn]_vars

(***************************************************************************)
(* Two transactions on disjoint keys of one target: cubes of a Space, or   *)
(* replaced slots of an Inventory.  The caller merges them and executes    *)
(* the merged transaction; what executing them one after the other, in     *)
(* either order, would have given is recorded next to it.                  *)
(***************************************************************************)
\* InventoryTransactions that only replace slots, at most n of them.
ReplaceTransactions(n) ==
    UNION {{InventoryTransaction(r, <<>>) : r \in [D -> ReplacePairs]} :
           D \in {D \in SUBSET SlotIndices : Cardinality(D) <= n}}

DisjointInit ==
    /\ UInit
    /\ AppNew
    /\ out = OutNone
    /\ sC = EmptyMap
    /\ iC = NoInventoryTransaction
    /\ \/ /\ space \in Spaces
          /\ sA \in SpaceTransactions(TxnCubes, MaxEntries)
          /\ sB \in SpaceTransactions(TxnCubes \ DOMAIN sA, MaxEntries - MapLen(sA))
          /\ inventory = IdleInventory
          /\ iA = NoInventoryTransaction
          /\ iB = NoInventoryTransaction
       \/ /\ space = IdleSpace
          /\ sA = EmptyMap
          /\ sB = EmptyMap
          /\ inventory \in Inventories
          /\ iA \in ReplaceTransactions(MaxEntries)
          /\ iB \in {t \in ReplaceTransactions(MaxEntries - MapLen(iA.replace)) :
                        DOMAIN t.replace \cap DOMAIN iA.replace = {}}

\* Execute t1 and then t2 on the space, whatever the first execute returned.
space_execute_both(t1, t2, sp) ==
    The({The({[ok |-> e1.ok /\ e2.ok, space |-> e2.space] :
              e2 \in {space_execute(t2, e1.space)}}) :
         e1 \in {space_execute(t1, sp)}})

\* Execute t1 and then t2 on the inventory.
inventory_execute_both(t1, t2, slots) ==
    The({The({[ok |-> e1.ok /\ e2.ok, inventory |-> e2.inventory] :
              e2 \in {inventory_execute(t2, e1.inventory)}}) :
         e1 \in {inventory_execute(t1, slots)}})

SpaceMergedExecute ==
    \E m \in {SpaceMerge(Ok(sA), Ok(sB))} :
    \E e \in {IF m.ok THEN space_execute(m.value, space)
              ELSE [ok |-> FALSE, space |-> space]} :
        /\ out.op = "none"
        /\ iA = NoInventoryTransaction /\ iB = NoInventoryTransaction
        /\ space' = e.space
        /\ out' = [op |-> "space_merged_execute",
                   check_merge |-> SpaceCheckMerge(sA, sB),
                   merged |-> m, ok |-> e.ok, before |-> space,
                   ok1 |-> SpaceCheck(sA, space).ok,
                   ok2 |-> SpaceCheck(sB, space).ok,
                   failure1 |-> PreconditionFailed("Space", SpaceCheck(sA, space).problem),
                   failure2 |-> PreconditionFailed("Space", SpaceCheck(sB, space).problem),
                   one_two |-> space_execute_both(sA, sB, space).space,
                   two_one |-> space_execute_both(sB, sA, space).space]
        /\ UNCHANGED <<uvars, avars, inventory, sA, sB, sC, iA, iB, iC>>

InventoryMergedExecute ==
    \E m \in {InventoryMerge(Ok(iA), Ok(iB))} :
    \E e \in {IF m.ok THEN inventory_execute(m.value, inventory)
              ELSE [ok |-> FALSE, inventory |-> inventory, outputs |-> <<>>]} :
        /\ out.op = "none"
        /\ sA = EmptyMap /\ sB = EmptyMap
        /\ inventory' = e.inventory
        /\ out' = [op |-> "inventory_merged_execute",
                   check_merge |-> InventoryCheckMerge(iA, iB),
                   merged |-> m, ok |-> e.ok, before |-> inventory,
                   outputs |-> e.outputs,
                   ok1 |-> InventoryCheck(iA, inventory).ok,
                   ok2 |-> InventoryCheck(iB, inventory).ok,
                   failure1 |-> PreconditionFailed("Inventory",
                                    InventoryCheck(iA, inventory).problem),
                   failure2 |-> PreconditionFailed("Inventory",
                                    InventoryCheck(iB, inventory).problem),
                   one_two |-> inventory_execute_both(iA, iB, inventory).inventory,
                   two_one |-> inventory_execute_both(iB, iA, inventory).inventory]
        /\ UNCHANGED <<uvars, avars, space, sA, sB, sC, iA, iB, iC>>

DisjointNext ==
    \/ SpaceMergedExecute
    \/ InventoryMergedExecute

SpecDisjoint == DisjointInit /\ [][DisjointNext]_vars

(***************************************************************************)
(* Properties of the universe and its handles.                             *)
(***************************************************************************)
AllIds == 1..allocated

Keys == DOMAIN blocks \cup DOMAIN characters \cup DOMAIN spaces

\* C1: on every member, either no write guard is outstanding (and any number
\* of read guards), or exactly one write guard and no read guard; read
\* guards and a write guard are never outstanding together.
C1_BorrowExclusion ==
    \A id \in RootIds :
        \/ writers[id] = 0 /\ readers[id] >= 0
        \/ writers[id] = 1 /\ readers[id] = 0

\* Two read guards are held on a member and a write() on it has just failed.
C1_Witness ==
    /\ lastOp.op = "write"
    /\ lastOp.result = "AlreadyBorrowed"
    /\ readers[lastOp.id] = 2

\* C4: no name is a key of more than one of the tables blocks, characters
\* and spaces.
C4_NameInOneTable ==
    /\ DOMAIN blocks \cap DOMAIN characters = {}
    /\ DOMAIN blocks \cap DOMAIN spaces = {}
    /\ DOMAIN characters \cap DOMAIN spaces = {}

\* An insert was refused because its name is taken, with members in two
\* different tables.
C4_Witness ==
    /\ lastOp.op = "insert"
    /\ lastOp.result = "AlreadyExists"
    /\ lastOp.name \notin DOMAIN blocks
    /\ Cardinality(Keys) = 2

\* C5: an insertion with Name::Pending stores the member under Anonym(n)
\* with n at least the counter, which then exceeds n; the counter never
\* decreases and every Anonym key stored is below it, so n is above every
\* number allocated before and the name is new to the universe, also after
\* deletions and collections; the assertion of allocate_name never fails.
C5_FreshAnonym ==
    [][/\ next_anonym' >= next_anonym
       /\ \A name \in Keys' : name.kind = "Anonym" => name.num < next_anonym'
       /\ lastOp'.result # "AssertionFailed"
       /\ (lastOp'.op = "insert" /\ lastOp'.result = "Ok" /\ lastOp'.name.kind = "Anonym")
            => /\ lastOp'.name.num >= next_anonym
               /\ lastOp'.name.num < next_anonym'
               /\ lastOp'.name \notin Keys
               /\ lastOp'.name \in Keys']_vars

\* An anonymous insertion has succeeded after the member given the previous
\* anonymous name was removed.
C5_Witness ==
    /\ lastOp.op = "insert"
    /\ lastOp.result = "Ok"
    /\ lastOp.name = Anonym(1)
    /\ Anonym(0) \notin Keys

\* C6: a handle to a member that has been removed fails read and write with
\* Gone and acquires no guard; a removed member stays gone in every later
\* state, also when a new member is inserted under its name; delete returns
\* true iff a member had the name, removes that member, and leaves the name
\* in no table.
C6_DeleteMakesGone ==
    [][/\ \A id \in AllIds : ~Live(id) => ~Live(id)'
       /\ (lastOp'.op \in {"read", "write", "try_modify"} /\ ~Live(lastOp'.id))
            => /\ lastOp'.result = "Gone"
               /\ readers' = readers
               /\ writers' = writers
       /\ lastOp'.op = "delete"
            => /\ (lastOp'.result = "true") <=> (lastOp'.name \in Keys)
               /\ lastOp'.name \notin Keys'
               /\ \A id \in AllIds :
                    (Live(id) /\ ~Live(id)') <=>
                        id = get_any(blocks, characters, spaces, lastOp'.name)]_vars

\* A read through a handle to a deleted member has failed with Gone while a
\* new member is stored under the name the deleted member had.
C6_Witness ==
    /\ lastOp.op = "read"
    /\ lastOp.result = "Gone"
    /\ lastOp.id = 1
    /\ Specific("a") \in Keys

GcRan == lastOp'.op = "gc" \/ (lastOp'.op = "step" /\ wants_gc)

Orphaned(S) ==
    /\ S # {}
    /\ \A m \in S : /\ Live(m)
                    /\ handles[m] = 0
                    /\ \E h \in S : m \in held[h]

\* C8: members that refer to each other in a cycle and to which no other
\* handle exists remain in the universe through every gc() and step().
C8_CyclesNotCollected ==
    [][\A S \in SUBSET RootIds : Orphaned(S) => Orphaned(S)']_vars

\* A collection has run over two members that refer to each other and to
\* which no caller holds a handle.
C8_Witness ==
    /\ lastOp.op = "gc"
    /\ Orphaned({1, 2})
    /\ held[1] = {2}
    /\ held[2] = {1}


(***************************************************************************)
(* Properties of transactions.                                             *)
(***************************************************************************)
\* C2: executing an aggregate transaction fails exactly when the check of
\* one of its member transactions fails, and a failed execute leaves the
\* value of every member, the ones whose own check passed included, as it
\* was before the call.
C2_AggregateAtomic ==
    [][out'.op = "universe_execute" =>
        /\ out'.ok <=> (\A m \in out'.members : out'.checks[m])
        /\ ~out'.ok => space' = space /\ inventory' = inventory]_vars

\* A failed aggregate whose space transaction passed its own check and would
\* have changed the space, and whose character transaction failed.
C2_Witness ==
    /\ out.op = "universe_execute"
    /\ ~out.ok
    /\ out.checks.space
    /\ ~out.checks.character
    /\ out.would_change.space

\* C3: check leaves its target as it was, for a SpaceTransaction on a Space
\* and for an InventoryTransaction (with or without insertions) on an
\* Inventory, whether the check passes or fails.
C3_CheckDoesNotMutate ==
    [][out'.op \in {"space_check", "inventory_check"} =>
        space' = space /\ inventory' = inventory]_vars

\* A check of insertions that fails for lack of room after some of the
\* inserted stacks found a place in the working copy of the slots.
C3_Witness ==
    /\ out.op = "inventory_check"
    /\ ~out.ok
    /\ out.problem = "insufficient empty slots"
    /\ iA.replace = EmptyMap
    /\ PlaceAll(inventory, iA["insert"], <<>>).slots # inventory

\* C9: check_merge of two SpaceTransactions fails if and only if some cube
\* present in both has cube transactions that both give a new block (equal
\* or not) or that expect different old blocks.
C9_CheckMergeConflict ==
    LET CubesConflict(t1, t2) ==
            \/ t1.new # None /\ t2.new # None
            \/ t1.old # None /\ t2.old # None /\ t1.old # t2.old
        SpacesConflict(t1, t2) ==
            \E cube \in DOMAIN t1 \cap DOMAIN t2 : CubesConflict(t1[cube], t2[cube])
    IN out.op = "space_merge" =>
        /\ out.ab <=> ~SpacesConflict(sA, sB)
        /\ out.bc <=> ~SpacesConflict(sB, sC)
        /\ out.ac <=> ~SpacesConflict(sA, sC)

\* Two transactions giving the same new block for one cube were found to conflict.
C9_Witness ==
    /\ out.op = "space_merge"
    /\ ~out.ab
    /\ \E cube \in DOMAIN sA \cap DOMAIN sB :
            /\ sA[cube].new # None
            /\ sA[cube].new = sB[cube].new
            /\ sA[cube].old = sB[cube].old

\* C10: for three transactions of one kind, check_merge gives the same
\* answer in both directions, merging A with B and then C succeeds iff
\* merging B with C and then A succeeds, and every order and grouping of
\* merging the three succeeds iff no two of them conflict.
C10_MergeOrderIndependent ==
    out.op \in {"space_merge", "inventory_merge"} =>
        /\ out.ab = out.ba
        /\ out.bc = out.cb
        /\ out.ac = out.ca
        /\ out.ab_c <=> out.bc_a
        /\ out.all = {out.ab /\ out.bc /\ out.ac}

\* A and B merge, B and C conflict on a cube all three name, and merging
\* A with B and then with C was refused.
C10_Witness ==
    /\ out.op = "space_merge"
    /\ out.ab
    /\ out.ac
    /\ ~out.bc
    /\ ~out.ab_c
    /\ \E cube \in DOMAIN sA \cap DOMAIN sB \cap DOMAIN sC : sA[cube].old = None

\* The merge of the two transactions on disjoint keys was accepted and holds
\* exactly the entries of both.
MergedHoldsBoth ==
    /\ out.check_merge
    /\ out.merged.ok
    /\ IF out.op = "space_merged_execute"
       THEN /\ DOMAIN out.merged.value = DOMAIN sA \cup DOMAIN sB
            /\ \A c \in DOMAIN sA : out.merged.value[c] = sA[c]
            /\ \A c \in DOMAIN sB : out.merged.value[c] = sB[c]
       ELSE /\ DOMAIN out.merged.value.replace = DOMAIN iA.replace \cup DOMAIN iB.replace
            /\ \A i \in DOMAIN iA.replace : out.merged.value.replace[i] = iA.replace[i]
            /\ \A i \in DOMAIN iB.replace : out.merged.value.replace[i] = iB.replace[i]
            /\ out.merged.value["insert"] = <<>>

\* The keys named by neither transaction hold what they held before.
OtherKeysUnchanged ==
    IF out.op = "space_merged_execute"
    THEN \A c \in GridCubes \ (DOMAIN sA \cup DOMAIN sB) : space[c] = out.before[c]
    ELSE \A p \in DOMAIN inventory :
            (p - 1) \notin (DOMAIN iA.replace \cup DOMAIN iB.replace)
                => inventory[p] = out.before[p]

\* The target after the merged execute.
TargetAfter == IF out.op = "space_merged_execute" THEN space ELSE inventory

C12_ReadResult ==
    [][lastOp'.op = "read" =>
        LET id == lastOp'.id
        IN /\ ~Live(id) =>
                lastOp'.result = "Gone" /\ readers' = readers /\ writers' = writers
           /\ Live(id) /\ writers[id] > 0 =>
                /\ lastOp'.result = "AlreadyMutablyBorrowed"
                /\ readers' = readers /\ writers' = writers
           /\ Live(id) /\ writers[id] = 0 =>
                /\ lastOp'.result = "Ok"
                /\ readers' = [readers EXCEPT ![id] = @ + 1]
                /\ writers' = writers]_vars

\* A read succeeded on a member that already had a read guard outstanding.
C12_Witness ==
    /\ lastOp.op = "read"
    /\ lastOp.result = "Ok"
    /\ readers[lastOp.id] = 2
    /\ writers[lastOp.id] = 0

\* C13: write() and try_modify() on a handle succeed exactly when the member
\* exists and no read guard and no write guard is outstanding on it; a
\* failure is returned at once as an error value and leaves the guards and
\* every member's value as they were, so the call succeeds again as soon as
\* the guards are released.
C13_WriteResult ==
    [][lastOp'.op \in {"write", "try_modify"} =>
        LET id == lastOp'.id
        IN /\ lastOp'.result = "Ok"
                <=> (Live(id) /\ readers[id] = 0 /\ writers[id] = 0)
           /\ lastOp'.result \in {"Ok", "Gone", "AlreadyBorrowed", "AlreadyMutablyBorrowed"}
           /\ lastOp'.result # "Ok" =>
                readers' = readers /\ writers' = writers /\ held' = held
           /\ lastOp'.result = "Ok" /\ lastOp'.op = "write" =>
                writers' = [writers EXCEPT ![id] = 1] /\ readers' = readers
           /\ lastOp'.result = "Ok" /\ lastOp'.op = "try_modify" =>
                writers' = writers /\ readers' = readers]_vars

\* A try_modify was refused because a write guard is outstanding on the member.
C13_Witness ==
    /\ lastOp.op = "try_modify"
    /\ lastOp.result = "AlreadyMutablyBorrowed"
    /\ writers[lastOp.id] = 1
    /\ Live(lastOp.id)

\* C14: an insert with a Specific name that is in use in any table fails
\* with AlreadyExists and leaves the three tables, the storages and
\* next_anonym as they were, so the name still leads to the member stored
\* under it before; with a Specific name not in use it succeeds.
C14_SpecificNameInUse ==
    [][\A name \in ProposedNames :
        lastOp'.op = "insert" /\ lastOp'.proposed = name /\ name.kind = "Specific" =>
           /\ name \in Keys =>
                /\ lastOp'.result = "AlreadyExists"
                /\ blocks' = blocks /\ characters' = characters /\ spaces' = spaces
                /\ next_anonym' = next_anonym
                /\ allocated' = allocated
                /\ get_any(blocks', characters', spaces', name)
                        = get_any(blocks, characters, spaces, name)
                /\ Live(get_any(blocks, characters, spaces, name))'
           /\ name \notin Keys => lastOp'.result = "Ok"]_vars

\* An insert under the name of an existing space has failed with
\* AlreadyExists.
C14_Witness ==
    /\ lastOp.op = "insert"
    /\ lastOp.result = "AlreadyExists"
    /\ lastOp.proposed = Specific("a")
    /\ Specific("a") \in DOMAIN spaces

\* C15: an insert with a caller's Anonym name fails with InvalidName, in use
\* or not, and leaves the tables, the storages and next_anonym as they
\* were; every key of the tables is a Specific name or an Anonym name below
\* next_anonym, never Pending.
C15_AnonymNameInvalid ==
    [][/\ lastOp'.op = "insert" /\ lastOp'.proposed.kind = "Anonym" =>
            /\ lastOp'.result = "InvalidName"
            /\ blocks' = blocks /\ characters' = characters /\ spaces' = spaces
            /\ next_anonym' = next_anonym
            /\ allocated' = allocated
            /\ handles' = handles
       /\ \A k \in Keys' :
            \/ k.kind = "Specific"
            \/ k.kind = "Anonym" /\ k.num < next_anonym']_vars

\* An insert with the caller's name Anonym(0) has failed with InvalidName
\* while no member is stored under Anonym(0).
C15_Witness ==
    /\ lastOp.op = "insert"
    /\ lastOp.proposed = Anonym(0)
    /\ lastOp.result = "InvalidName"
    /\ Anonym(0) \notin Keys
    /\ next_anonym = 0

\* C16: a successful insert sets wants_gc and removes no member; a step()
\* that finds wants_gc set removes every member without a handle and clears
\* the flag; a step() that finds it clear removes no member, not even one
\* without a handle; and whenever wants_gc is set it is eventually cleared
\* by a step().
C16_LazyGc ==
    /\ [][/\ lastOp'.op = "insert" /\ lastOp'.result = "Ok" =>
                /\ wants_gc'
                /\ \A id \in AllIds : Live(id) => Live(id)'
          /\ lastOp'.op = "step" /\ wants_gc =>
                /\ ~wants_gc'
                /\ \A id \in AllIds :
                        Live(id) /\ weak_ref_count(held, handles, id) = 0 => ~Live(id)'
          /\ lastOp'.op = "step" /\ ~wants_gc =>
                /\ ~wants_gc'
                /\ blocks' = blocks /\ characters' = characters /\ spaces' = spaces
          /\ lastOp'.op = "drop" => wants_gc' = wants_gc]_vars
    /\ (wants_gc ~> ~wants_gc)

\* A step() with wants_gc clear has left in place a member to which no handle
\* exists.
C16_Witness ==
    /\ lastOp.op = "step"
    /\ ~wants_gc
    /\ \E id \in AllIds : Live(id) /\ weak_ref_count(held, handles, id) = 0

\* C17: an execute whose check fails returns the failure, leaves its target
\* as it was and emits no output; outputs are emitted only by an execute
\* that commits; executing the empty InventoryTransaction succeeds, changes
\* nothing and emits no output.
C17_ExecuteIsCheckThenCommit ==
    [][/\ out'.op = "inventory_execute" =>
            /\ ~out'.ok => inventory' = inventory /\ out'.outputs = <<>>
            /\ out'.outputs # <<>> => out'.ok
            /\ out'.empty => out'.ok /\ inventory' = inventory /\ out'.outputs = <<>>
            /\ space' = space
       /\ out'.op = "space_execute" =>
            /\ ~out'.ok => space' = space
            /\ inventory' = inventory]_vars

\* The empty InventoryTransaction was executed on an inventory that holds
\* something: it succeeded without any output.
C17_Witness ==
    /\ out.op = "inventory_execute"
    /\ out.empty
    /\ out.ok
    /\ out.outputs = <<>>
    /\ inventory # IdleInventory

\* C18: SpaceTransaction::check succeeds exactly when every cube the
\* transaction names lies inside the space's bounds, whatever it carries,
\* and every cube with an expected-old block currently holds that block; a
\* cube without an expected-old block puts no condition on the current block.
C18_SpaceCheckIff ==
    out.op = "space_check" =>
        (out.ok <=>
            \A cube \in DOMAIN sA :
                /\ cube \in GridCubes
                /\ sA[cube].old # None => space[cube] = sA[cube].old)

\* A check failed although every expected-old block matched: a cube that
\* carries only a new block lies outside the space.
C18_Witness ==
    /\ out.op = "space_check"
    /\ ~out.ok
    /\ \E cube \in DOMAIN sA :
          cube \notin GridCubes /\ sA[cube].old = None /\ sA[cube].new # None
    /\ \A cube \in DOMAIN sA : sA[cube].old = None

\* The cubes of t, all inside the space, whose expected-old block differs
\* from the block stored in sp; empty when a cube of t is out of bounds.
MismatchedCubes(t, sp) ==
    IF DOMAIN t \subseteq DOMAIN sp
    THEN {cube \in DOMAIN t : t[cube].old # None /\ sp[cube] # t[cube].old}
    ELSE {}

\* The slots of t, all inside the inventory, whose expected-old slot differs
\* from the slot stored in slots.
MismatchedSlots(t, slots) ==
    IF \A index \in DOMAIN t.replace : index + 1 <= Len(slots)
    THEN {index \in DOMAIN t.replace : slots[index + 1] # t.replace[index][1]}
    ELSE {}

\* C19: a check that fails because the value at a key differs from the
\* expected-old value returns a failure naming that key, and the target
\* keeps its old value.  Two transactions on disjoint keys that both fail
\* this way on the same target are violated at different keys, so failures
\* that name the violated key are different failures.
C19_FailureNamesKey ==
    /\ out.op = "space_merged_execute"
       /\ MismatchedCubes(sA, out.before) # {}
       /\ MismatchedCubes(sB, out.before) # {}
       => /\ ~out.ok1 /\ ~out.ok2
          /\ out.failure1 # out.failure2
          /\ space = out.before
    /\ out.op = "inventory_merged_execute"
       /\ MismatchedSlots(iA, out.before) # {}
       /\ MismatchedSlots(iB, out.before) # {}
       => /\ ~out.ok1 /\ ~out.ok2
          /\ out.failure1 # out.failure2
          /\ inventory = out.before

\* C20 as claimed: a commit calls the output callback once for each key it
\* changes, so a transaction that writes k distinct slots emits k records.
C20_OutputPerChangedKey ==
    [][out'.op = "inventory_execute" /\ out'.ok =>
          Len(out'.outputs) =
              Cardinality(out'.replaced \cup
                          {i \in SlotIndices : i + 1 <= Len(inventory)
                                               /\ inventory'[i + 1] # inventory[i + 1]})]_vars

\* C20 as the code has it: a commit of a transaction that is not empty calls
\* the output callback exactly once, with one change whose slot list holds
\* exactly the slots the transaction replaced or moved inserted items into;
\* the empty transaction emits nothing.
C20_OneChangeListingSlots ==
    [][out'.op = "inventory_execute" /\ out'.ok =>
          IF out'.empty THEN out'.outputs = <<>>
          ELSE /\ Len(out'.outputs) = 1
               /\ Range(out'.outputs[1]) =
                      out'.replaced \cup
                      {i \in SlotIndices : i + 1 <= Len(inventory)
                                           /\ inventory'[i + 1] # inventory[i + 1]}]_vars

\* A transaction replacing slot 0 and slot 1 was committed and changed both:
\* it emitted a single change listing the two slots.
C20_Witness ==
    /\ out.op = "inventory_execute"
    /\ out.ok
    /\ out.replaced = {0, 1}
    /\ out.outputs = << <<0, 1>> >>

\* C21: when aggregates that each insert a member under a Pending name are
\* built independently, merged and executed, the execute succeeds and every
\* inserted member is stored under its own Anonym name: the names differ
\* from each other and from every name the universe held before, and each
\* leads to a storage of its own.
C21_PendingResolvedAtCommit ==
    [][lastOp'.op = "execute_inserts"
       /\ (\A i \in DOMAIN lastOp'.proposed : lastOp'.proposed[i] = Pending)
       => /\ lastOp'.result = "Ok"
          /\ Len(lastOp'.names) = Len(lastOp'.proposed)
          /\ \A i \in DOMAIN lastOp'.names :
                /\ lastOp'.names[i].kind = "Anonym"
                /\ lastOp'.names[i] \notin
                       DOMAIN blocks \cup DOMAIN characters \cup DOMAIN spaces
                /\ lastOp'.names[i] \in
                       DOMAIN blocks' \cup DOMAIN characters' \cup DOMAIN spaces'
                /\ \A j \in DOMAIN lastOp'.names :
                      i # j => lastOp'.names[i] # lastOp'.names[j]
          /\ Cardinality(Range(blocks') \cup Range(characters') \cup Range(spaces'))
             = Cardinality(Range(blocks) \cup Range(characters) \cup Range(spaces))
               + Len(lastOp'.proposed)]_vars

\* Two aggregates that each insert a Pending member were merged and
\* executed: both members are stored, under different names.
C21_Witness ==
    /\ lastOp.op = "execute_inserts"
    /\ lastOp.result = "Ok"
    /\ lastOp.proposed = <<Pending, Pending>>
    /\ Len(lastOp.names) = 2
    /\ lastOp.names[1] # lastOp.names[2]

C22_StepSurvivesFailure ==
    out.op = "step" =>
        /\ lastOp.op = "step" /\ lastOp.result = "Ok"
        /\ Len(out.results) = Len(lastOp.stepped)
        /\ out.logged = Cardinality({i \in DOMAIN out.results : ~out.results[i]})
        /\ inventory = inventory_execute(out.inventory_txn, out.before.inventory).inventory
        /\ out.results[2] = inventory_execute(out.inventory_txn, out.before.inventory).ok
        /\ out.results[1] =>
              space = SpaceCommit(out.space_txn, out.before.space).space
        /\ ~out.checked => space = out.before.space

\* The space's transaction passed its check and failed in its commit, and
\* the character's transaction was executed all the same and changed the
\* inventory.
C22_Witness ==
    /\ out.op = "step"
    /\ out.checked
    /\ ~out.results[1]
    /\ out.results[2]
    /\ inventory # out.before.inventory
    /\ out.logged = 1

\* C27: a commit of a SpaceTransaction that returns an error has changed no
\* cube of the space.
C27_CommitNotPartial ==
    out.op = "step" /\ out.checked /\ ~out.results[1] => space = out.before.space

\* The sum of a sequence of numbers.
RECURSIVE Total(_)
Total(s) == IF s = <<>> THEN 0 ELSE Head(s) + Total(Tail(s))

\* A stack can be placed completely in slots: there is an empty slot, or the
\* stacks of its item have room for all of it.
Fits(slots, stack) ==
    \/ \E p \in DOMAIN slots : slots[p] = EmptySlot
    \/ Total([p \in DOMAIN slots |->
                 IF slots[p].item = stack.item
                 THEN saturating_sub(stack_limit(stack.item), slots[p].count)
                 ELSE 0]) >= stack.count

\* The number of items `item` in a sequence of slots.
ItemCount(slots, item) ==
    Total([p \in DOMAIN slots |-> IF slots[p].item = item THEN slots[p].count ELSE 0])

\* C24: for an InventoryTransaction with an insertion list whose
\* replacements are valid, check fails, with the insufficient-space failure,
\* exactly when some inserted stack, taken in list order after the
\* replacements, cannot be placed completely; on that failure the inventory
\* is as it was; on success the committed inventory is the simulated
\* post-state, which holds the replaced slots' items plus the inserted ones.
C24_InsertSimulated ==
    [][/\ out'.op \in {"inventory_check", "inventory_execute"}
       /\ iA["insert"] # <<>>
       /\ \A index \in DOMAIN iA.replace :
             index + 1 <= Len(inventory) /\ inventory[index + 1] = iA.replace[index][1]
       => LET replaced == [p \in DOMAIN inventory |->
                              IF p - 1 \in DOMAIN iA.replace
                              THEN iA.replace[p - 1][2] ELSE inventory[p]]
              after(i) == PlaceAll(replaced, SubSeq(iA["insert"], 1, i), <<>>)
              unplaced == {i \in DOMAIN iA["insert"] :
                              after(i - 1).ok /\ ~Fits(after(i - 1).slots, iA["insert"][i])}
          IN /\ out'.ok <=> unplaced = {}
             /\ ~out'.ok => /\ out'.problem = "insufficient empty slots"
                            /\ inventory' = inventory
             /\ out'.op = "inventory_check" => inventory' = inventory
             /\ out'.op = "inventory_execute" /\ out'.ok =>
                   /\ inventory' = after(Len(iA["insert"])).slots
                   /\ \A item \in {"one", "std"} :
                         ItemCount(inventory', item) =
                             ItemCount(replaced, item) + ItemCount(iA["insert"], item)]_vars

\* An insertion of two stacks after a replacement was committed, and left
\* the inventory without an empty slot.
C24_Witness ==
    /\ out.op = "inventory_execute"
    /\ out.ok
    /\ Len(iA["insert"]) = 2
    /\ iA.replace # EmptyMap
    /\ \A p \in DOMAIN inventory : inventory[p] # EmptySlot

\* C25: check_merge of two InventoryTransactions fails exactly when some
\* slot is replaced by both; insertion lists never make a conflict; the
\* merged transaction holds the replacements of both and, as its insertion
\* list, the first transaction's list followed by the second's.
C25_InventoryMerge ==
    out.op = "inventory_merge" =>
        /\ out.ab <=> DOMAIN iA.replace \cap DOMAIN iB.replace = {}
        /\ out.merged.ok <=> out.ab
        /\ out.merged.ok =>
              /\ out.merged.value["insert"] = iA["insert"] \o iB["insert"]
              /\ DOMAIN out.merged.value.replace = DOMAIN iA.replace \cup DOMAIN iB.replace
              /\ \A slot \in DOMAIN iA.replace :
                    out.merged.value.replace[slot] = iA.replace[slot]
              /\ \A slot \in DOMAIN iB.replace :
                    out.merged.value.replace[slot] = iB.replace[slot]

\* Two transactions that insert different stacks, one of them also
\* replacing a slot, were merged.
C25_Witness ==
    /\ out.op = "inventory_merge"
    /\ out.merged.ok
    /\ iB.replace # EmptyMap
    /\ iA["insert"] # <<>> /\ iB["insert"] # <<>>
    /\ iA["insert"] # iB["insert"]

\* C26: deserializing the serialized form of a universe, with or without
\* anonymously named members, yields a universe that holds every member
\* under the name it had.
C26_RoundTrip ==
    lastOp.op = "deserialize" =>
        /\ lastOp.result = "Ok"
        /\ lastOp.loaded.blocks = DOMAIN blocks
        /\ lastOp.loaded.characters = DOMAIN characters
        /\ lastOp.loaded.spaces = DOMAIN spaces

\* C28: after set_universe_async, every maybe_step_universe that finds the
\* future pending leaves the universe and the stored future in place; the
\* first one that finds it ready with Ok replaces the universe by the
\* future's and reads the character from it, with Err keeps the universe;
\* in both ready cases the stored future is cleared, and no future is
\* polled after it was found ready.
C28_AsyncUniverse ==
    [][appOp'.op = "maybe_step_universe" =>
          /\ appOp'.polled \in {"None", "Pending"} =>
                /\ game_universe' = game_universe
                /\ game_character' = game_character
                /\ game_universe_in_progress' = game_universe_in_progress
          /\ appOp'.polled = "Ok" =>
                /\ game_universe' = UniverseOf(game_universe_in_progress)
                /\ game_character' = get_default_character(game_universe')
                /\ game_universe_in_progress' = NoFuture
          /\ appOp'.polled = "Err" =>
                /\ game_universe' = game_universe
                /\ game_character' = game_character
                /\ game_universe_in_progress' = NoFuture
          /\ \A f \in Futures : futures'[f].late_polls = 0]_vars

\* A future resolved to Err was polled and cleared, and a later
\* maybe_step_universe went by with no future stored.
C28_Witness ==
    /\ appOp.op = "maybe_step_universe"
    /\ appOp.polled = "None"
    /\ \E f \in Futures : futures[f].ready = "Err" /\ futures[f].completed
    /\ \E f \in Futures : futures[f].ready = "Ok" /\ futures[f].completed
                          /\ game_universe = UniverseOf(f)

\* C29: a future that was stored by set_universe_async and replaced, by
\* set_universe or by another set_universe_async, before a poll found it
\* ready never gives the app its universe, whenever it becomes ready.
C29_SupersededFutureCancelled ==
    \A f \in Futures :
        futures[f].superseded =>
            /\ game_universe # UniverseOf(f)
            /\ game_universe_in_progress # f
            /\ ~futures[f].completed

\* A future replaced by set_universe became ready with Ok afterwards, and
\* maybe_step_universe has run since.
C29_Witness ==
    /\ appOp.op = "maybe_step_universe"
    /\ game_universe = GivenUniverse
    /\ \E f \in Futures : futures[f].superseded /\ futures[f].ready = "Ok"

\* C30: a garbage collection deletes the members with Anonym names to which
\* no reference exists, and deletes no member that was inserted under a
\* Specific name, even when no handle to it is outstanding.
C30_GcAnonymousOnly ==
    [][GcRan =>
        \A T \in {blocks, characters, spaces} :
        \A name \in DOMAIN T :
            /\ name.kind = "Anonym" /\ weak_ref_count(held, handles, T[name]) = 0
               => name \notin DOMAIN blocks' \cup DOMAIN characters' \cup DOMAIN spaces'
            /\ name.kind = "Specific"
               => name \in DOMAIN blocks' \cup DOMAIN characters' \cup DOMAIN spaces']_vars

\* C39: when a garbage collection returns, every member that remains has a
\* reference handle outstanding, held by a caller or inside a member that
\* remains; a member whose only handles were inside a member removed by the
\* same collection is removed with it.
C39_GcLeavesOnlyReferenced ==
    [][lastOp'.op = "gc" =>
        \A id \in RootIds : Live(id)' => weak_ref_count(held', handles', id) > 0]_vars

\* C36: SpaceTransaction::set(cube, old, new) does what merging with
\* set_cube(cube, old, new) does: it returns Ok exactly when the merge
\* succeeds, and the transaction is then the merge result; when the merge
\* conflicts, set returns the conflict and leaves the transaction as it was.
C36_SetEquivalentToMerge ==
    out.op = "space_set" =>
        /\ out.ok <=> out.merged.ok
        /\ out.ok => sA = out.merged.value
        /\ ~out.ok => sA = out.before

\* set on a cube the transaction already names, merged into the existing
\* entry of a two-cube transaction.
C36_Witness ==
    /\ out.op = "space_set"
    /\ DOMAIN sB \subseteq DOMAIN out.before
    /\ out.ok
    /\ sA # out.before
    /\ MapLen(sA) = 2

\* Executing the transactions ts on the space sp one after the other: the
\* results, and the space left.
RECURSIVE ExecutedInOrder(_, _)
ExecutedInOrder(ts, sp) ==
    IF ts = <<>> THEN [results |-> <<>>, space |-> sp]
    ELSE LET e == space_execute(Head(ts), sp)
             r == ExecutedInOrder(Tail(ts), e.space)
         IN [results |-> <<e.ok>> \o r.results, space |-> r.space]

\* The members holding a write guard.
WriteBorrowed == {id \in RootIds : writers[id] > 0}

\* C31: within one Universe::step, the spaces and then the characters are
\* stepped, each under a write guard dropped before the next member is
\* stepped; no transaction is executed before every member has been stepped;
\* and the transactions are executed one at a time in the order collected,
\* each against the state the ones before it left.
C31_StepThenExecuteInOrder ==
    out.op \in {"stepping", "stepped"} =>
        /\ out.members = values(spaces) \o values(characters)
        /\ out.todo = SubSeq(out.members, Len(out.collected) + 1, Len(out.members))
        /\ WriteBorrowed = IF out.pc = "in_member" THEN {Head(out.todo)} ELSE {}
        /\ out.results # <<>> => /\ out.todo = <<>>
                                 /\ Len(out.collected) = Len(out.members)
        /\ \E done \in {SubSeq(out.collected, 1, Len(out.results))} :
           \E e \in {ExecutedInOrder(done, out.before)} :
              /\ out.results = e.results
              /\ space = e.space
              /\ out.collected = done \o out.pending

\* A step whose second transaction passes its check on the space as it was
\* before the step and fails on the space the first transaction left.
C31_Witness ==
    /\ out.op = "stepped"
    /\ out.results = <<TRUE, FALSE>>
    /\ SpaceCheck(out.collected[2], out.before).ok
    /\ space # out.before

\* C34: Slot::unload_to keeps the sum of the two slots' counts, for all
\* 16-bit counts and without overflow; slots holding different items are
\* both left as they were; and it returns true exactly when at least one
\* item moved to the destination.
C34_UnloadConservative ==
    out.op = "unload" =>
        /\ inventory[1].count + inventory[2].count
             = out.before[1].count + out.before[2].count
        /\ inventory[1].count \in 0..65535 /\ inventory[2].count \in 0..65535
        /\ (/\ out.before[1] # EmptySlot /\ out.before[2] # EmptySlot
            /\ out.before[1].item # out.before[2].item) => inventory = out.before
        /\ out.moved <=> inventory[2].count > out.before[2].count

\* A stack of the largest count unloads one item onto a stack one below its
\* limit, and keeps the rest.
C34_Witness ==
    /\ out.op = "unload"
    /\ out.moved
    /\ out.before = <<Stack(65535, "std"), Stack(99, "std")>>
    /\ inventory = <<Stack(65534, "std"), Stack(100, "std")>>

\* The slots a stack of `item` can unload into: the empty ones, and those
\* holding `item` below its stack limit.
Accepting(slots, item) ==
    {p \in DOMAIN slots :
        \/ slots[p] = EmptySlot
        \/ slots[p].item = item /\ slots[p].count < stack_limit(item)}

\* C35: an inserted stack is placed by one pass over the slots in increasing
\* index order, moving as much as fits into each slot that is empty or holds
\* the same item below its stack limit: a slot takes part of a single
\* inserted stack only when no slot before it is left able to take more; a
\* single inserted item goes to the lowest-index such slot; slots holding
\* other items are untouched; and after a successful insert-only transaction
\* the count of every item is its count before plus the count inserted.
C35_InsertPlacement ==
    (out.op = "insert" /\ out.ok) =>
        /\ \A item \in {"one", "std"} :
              ItemCount(inventory, item)
                = ItemCount(out.before, item) + ItemCount(out.stacks, item)
        /\ \A p \in DOMAIN inventory :
              (/\ out.before[p] # EmptySlot
               /\ \A i \in DOMAIN out.stacks : out.stacks[i].item # out.before[p].item)
              => inventory[p] = out.before[p]
        /\ Len(out.stacks) = 1 =>
              \A q \in DOMAIN inventory : inventory[q] # out.before[q] =>
                 /\ q \in Accepting(out.before, out.stacks[1].item)
                 /\ \A p \in 1..(q - 1) : p \notin Accepting(inventory, out.stacks[1].item)
        /\ (Len(out.stacks) = 1 /\ out.stacks[1].count = 1) =>
              \E q \in {Min(Accepting(out.before, out.stacks[1].item))} :
                 /\ inventory[q] = Stack(out.before[q].count + 1, out.stacks[1].item)
                 /\ \A p \in DOMAIN inventory \ {q} : inventory[p] = out.before[p]

\* A stack of two is split over a slot with room for one and a later empty
\* slot, past a slot that is full.
C35_Witness ==
    /\ out.op = "insert" /\ out.ok
    /\ out.stacks = <<Stack(2, "std")>>
    /\ out.before = <<Stack(99, "std"), Stack(100, "std"), EmptySlot>>
    /\ inventory = <<Stack(100, "std"), Stack(100, "std"), Stack(1, "std")>>

\* Every slot holds at most its item's stack limit.
WithinLimits(slots) ==
    \A p \in DOMAIN slots :
        slots[p] # EmptySlot => slots[p].count <= stack_limit(slots[p].item)

\* C40: inventory transactions keep the inventory well-formed: the number
\* of slots stays the one at construction, and if every slot was within its
\* item's stack limit before a transaction, every slot is within it after
\* the inserted stacks have been combined into the inventory.
C40_InventoryWellFormed ==
    out.op = "insert" =>
        /\ Len(inventory) = Len(out.before)
        /\ WithinLimits(out.before) => WithinLimits(inventory)

\* What C33 says of every state: the accumulated step time is at most
\* CATCH_UP_STEPS step lengths and never below zero, a call steps the
\* universe at most CATCH_UP_STEPS times, should_step() is false when a call
\* has returned, and a loop of calls has at most two of them.
FrameClockSafe ==
    /\ frame_clock.accumulated_step_time \in 0..ACCUMULATOR_CAP
    /\ call.steps <= CATCH_UP_STEPS
    /\ (call.pc = "idle" /\ call.loop = "running") => ~should_step(frame_clock)
    /\ (call.pc = "catch_up" /\ call.i = CATCH_UP_STEPS) => ~should_step(frame_clock)
    /\ call.calls <= 2
    /\ (call.pc = "catch_up" /\ call.calls = 1) => call.result = "None"

\* What C32 says of the messages: when the loop over the channel is left no
\* message is waiting, and the paused flag has been flipped once for each
\* TogglePause received.
ControlDrained ==
    call.pc \in {"control", "poll"} =>
        /\ call.pc = "poll" => control_channel.queue = <<>>
        /\ app_paused = (call.paused_at_start = (call.toggles % 2 = 0))

\* C32: maybe_step_universe always returns: it drains the queued control
\* messages, applying each (every TogglePause flips the paused flag once),
\* and goes on to stepping, also when every sender of the channel is gone.
C32_AlwaysReturns ==
    /\ []ControlDrained
    /\ (call.pc = "control") ~> (call.pc = "idle")

\* C33: the accumulated step time never exceeds CATCH_UP_STEPS step lengths
\* after an advance; one maybe_step_universe call steps at most twice, calls
\* did_step only when should_step() holds, and leaves should_step() false;
\* so a caller's loop that repeats the call until it returns None ends, after
\* at most two calls.
C33_CatchUpBounded ==
    /\ []FrameClockSafe
    /\ (call.loop = "running") ~> (call.loop = "done")

\* The definitions of a table refer back to the first one.
SelfReferential(defs) == defs[Cardinality(DOMAIN defs)].target # 0

\* C37: Block::evaluate always terminates, and for a definition that refers
\* to itself, directly or through a chain of Indirect and Rotated blocks, or
\* whose chain of indirections is deeper than the limit, what it returns is
\* EvalBlockError::StackOverflow.
C37_EvaluateTerminates ==
    /\ (out.status = "running") ~> (out.status \in {"Ok", "StackOverflow"})
    /\ [](SelfReferential(out.defs) => out.status # "Ok")

\* A flush() returns Ok in this step.
FlushCompletesOk ==
    /\ threads.flusher.pc # "idle"
    /\ threads'.flusher.pc = "idle"
    /\ threads'.flusher.result = "Ok"

\* Data whose write() has returned and which the texture does not hold is
\* flagged for the next flush: on its tile and on the allocator.
NoLostWrite ==
    (allocator_backing.lock = "none" /\ threads.writer.pc = "idle") =>
        \A t \in Tiles :
            tile_backing[t].data # texture[t] =>
                tile_backing[t].dirty /\ allocator_backing.dirty

\* Each thread waits for a Mutex the other holds.
WaitCycle ==
    /\ \/ /\ threads.writer.pc = "lock_tile"
          /\ tile_backing[threads.writer.tile].lock = "flusher"
       \/ /\ threads.writer.pc = "lock_allocator"
          /\ allocator_backing.lock = "flusher"
    /\ \/ /\ threads.flusher.pc = "lock_allocator"
          /\ allocator_backing.lock = "writer"
       \/ /\ threads.flusher.pc = "tiles" /\ threads.flusher.index \in Tiles
          /\ tile_backing[threads.flusher.index].lock = "writer"

\* C38: under every interleaving of write() with flush(), a flush() that
\* returns Ok has uploaded the data of every tile whose write() returned
\* before the flush was called (or data written after it), and has left the
\* tile dirty only for data written later; no written data stays behind
\* without its flags set; and the two threads never wait for each other's
\* Mutex.
C38_WriteThenFlushUploads ==
    [][/\ FlushCompletesOk =>
            \A t \in Tiles :
                threads.flusher.returned_before[t] # 0 =>
                    /\ texture'[t] >= threads.flusher.returned_before[t]
                    /\ tile_backing'[t].dirty =>
                          tile_backing'[t].data > threads.flusher.returned_before[t]
       /\ NoLostWrite'
       /\ ~WaitCycle']_vars

\* A flush() that was called after two write()s to one tile had returned has
\* completed: the texture holds the second data and the tile is clean.
C38_Witness ==
    /\ threads.flusher.pc = "idle" /\ threads.flusher.result = "Ok"
    /\ threads.flusher.returned_before[1] = 2
    /\ texture[1] = 2
    /\ ~tile_backing[1].dirty

====
